---- MODULE Spec2Model ----
(***************************************************************************)
(* Training and scoring pipeline of Predictra (backend/models).            *)
(*                                                                         *)
(* Spec      : the three training entry points (trainer.py,                *)
(*             anomaly.py run_training_pipeline, simple_trainer.py) run    *)
(*             as sequential jobs on one (user_id, machine_id) key of the  *)
(*             artifact store, interleaved with one inference process      *)
(*             (simple_predictor.py or anomaly.py run_prediction).         *)
(* SpecWin   : the window builders (create_sequences) as pure functions.   *)
(* SpecCols  : the sensor column resolution of the three trainers.         *)
(* SpecFn    : further functions of the loaders, the threshold             *)
(*             calculations and the scorers, each applied to arguments     *)
(*             drawn from bounded sets.                                    *)
(*                                                                         *)
(* Library failures (pandas, keras, joblib, file I/O) are inputs of the    *)
(* action in which the call is made.  Creating the model directory is      *)
(* taken to succeed.                                                       *)
(***************************************************************************)
EXTENDS Integers, Sequences, FiniteSets, TLC

\* ------------------------------------------------------------------ bounds
MaxJobs == 2        \* training jobs run one after the other on the key

\* ------------------------------------------------------- program constants
SEQUENCE_LENGTH == 10   \* trainer.py
EPOCHS == 5             \* trainer.py
MAX_SAMPLES == 5000     \* trainer.py
SEQUENCE_LEN == 5       \* anomaly.py
N_EPOCHS == 3           \* anomaly.py
MAX_FEATURES == 10      \* anomaly.py
max_training_rows == 3000   \* anomaly.py
max_samples == 500      \* simple_trainer.py

\* ------------------------------------------------------------ the store
Absent == -1     \* the file does not exist
Prior == 0       \* the file was there before the first job of this run

ModelFile == "model.h5"
ScalerFile == "scaler.pkl"
ColumnsFile == "columns.json"
ThresholdFile == "threshold.json"
StatsFile == "training_stats.json"
WeightsFile == "model_weights.h5"
ConfigFile == "model_config.json"

Bundle == {ModelFile, ScalerFile, ColumnsFile, ThresholdFile}
Files == Bundle \cup {StatsFile, WeightsFile, ConfigFile}

Min(a, b) == IF a < b THEN a ELSE b
Max(a, b) == IF a > b THEN a ELSE b

VARIABLES
    store,         \* file -> id of the job that wrote it, Prior or Absent
    thresholdKey,  \* threshold.json holds a "threshold" field
    tjob,          \* id of the current (or last) training job
    tkind,         \* which trainer runs it
    tpc,           \* position of the training process
    rows,          \* rows of the cleaned frame
    nseq,          \* number of sequences built (-1: none built)
    calib,         \* result of the threshold calculation of this job
    events,        \* events the job has printed, in order
    stages,        \* stages the job has entered, in order
    failure,       \* where and how the job failed
    outcome,       \* how the job ended
    pkind,         \* which predictor runs
    ppc,           \* position of the inference process
    loaded,        \* artifact -> version the predictor has loaded
    pthr,          \* where the predictor's threshold comes from
    presult,       \* how the inference run ended
    w_data,        \* window builder: the feature matrix (rows of cells)
    w_len,         \* window builder: the sequence length asked for
    w_L,           \* window builder: the sequence length used
    w_out,         \* window builder: the sequences returned
    w_pc,          \* window builder: input given, returned or raised
    c_cols,        \* column resolution: the column names of the file
    c_req,         \* column resolution: the caller's sensor names
    c_out,         \* column resolution: the resolved sensor columns
    c_err,         \* column resolution: the error raised, if any
    c_pc,          \* column resolution: which trainer resolved
    f_in,          \* function under check: its arguments
    f_out,         \* function under check: its result
    f_pc           \* function under check: "input", or the function that ran

tvars == <<tjob, tkind, tpc, rows, nseq, calib, events, stages, failure, outcome>>
pvars == <<pkind, ppc, loaded, pthr, presult>>
svars == <<store, thresholdKey>>
wvars == <<w_data, w_len, w_L, w_out, w_pc>>
cvars == <<c_cols, c_req, c_out, c_err, c_pc>>
fvars == <<f_in, f_out, f_pc>>
xvars == <<wvars, cvars, fvars>>
vars == <<store, thresholdKey, tjob, tkind, tpc, rows, nseq, calib, events,
          stages, failure, outcome, pkind, ppc, loaded, pthr, presult,
          w_data, w_len, w_L, w_out, w_pc, c_cols, c_req, c_out, c_err, c_pc,
          f_in, f_out, f_pc>>

\* ------------------------------------------------------ progress channel
Progress(n) == [type |-> "progress", progress |-> n, mtype |-> "-"]
Message(t) == [type |-> "message", progress |-> -1, mtype |-> t]
Heartbeat == [type |-> "heartbeat", progress |-> -1, mtype |-> "-"]
SuccessEnvelope == [type |-> "success", progress |-> -1, mtype |-> "-"]
ErrorEnvelope == [type |-> "error", progress |-> -1, mtype |-> "-"]

IsTerminal(e) == e.type \in {"success", "error"}

NoFailure == [stage |-> "none", kind |-> "none"]

\* Row counts of the cleaned frame that the jobs are run on: the empty
\* frame and, for the trainers that build windows, a frame one row short of
\* a window and a frame of exactly one window; for simple_trainer.py, which
\* trains on the rows themselves, a file without rows, a one-row file with
\* gaps and a file one row above the row cap whose header makes column
\* resolution fall back to the numeric columns.
T_RowChoices == {0, SEQUENCE_LENGTH - 1, SEQUENCE_LENGTH}
A_RowChoices == {0, SEQUENCE_LEN - 1, SEQUENCE_LEN}
U_Inputs ==
    { [rows |-> 0, fallback |-> FALSE, missing |-> FALSE],
      [rows |-> 1, fallback |-> FALSE, missing |-> TRUE],
      [rows |-> max_samples + 1, fallback |-> TRUE, missing |-> FALSE] }

Kinds == {"trainer", "anomaly", "ultra"}

\* The exception leaves the stage: the events printed so far stay, the
\* failure is recorded and control passes to the handler at `handler`.
Raise(stage, kind, printed, handler) ==
    /\ events' = events \o printed
    /\ failure' = [stage |-> stage, kind |-> kind]
    /\ tpc' = handler

\* ------------------------------------------------------------- job start
\* A caller starts the next training job on the key (no automatic retry:
\* each job is a new process).
StartJob ==
    /\ tpc \in {"idle", "done"}
    /\ tjob < MaxJobs
    /\ \E k \in Kinds :
        /\ tkind' = k
        /\ tpc' = "main"
    /\ tjob' = tjob + 1
    /\ rows' = 0
    /\ nseq' = -1
    /\ calib' = "none"
    /\ events' = << >>
    /\ stages' = <<"Initializing">>
    /\ failure' = NoFailure
    /\ outcome' = "none"
    /\ UNCHANGED <<xvars, svars, pvars>>

\* =============================================================== trainer.py
\* main(): argument check, sensor columns from the environment or from the
\* CSV header, construction of SimpleTrainer.
T_Main ==
    /\ tkind = "trainer" /\ tpc = "main"
    /\ \E argsOk \in BOOLEAN, headerOk \in BOOLEAN :
        IF ~argsOk
        THEN /\ events' = events \o <<ErrorEnvelope>>
             /\ outcome' = "usage"
             /\ tpc' = "done"
             /\ failure' = [stage |-> "Initializing", kind |-> "UsageError"]
        ELSE IF ~headerOk
        THEN /\ Raise("Initializing", "DataError", << >>, "main_except")
             /\ UNCHANGED outcome
        ELSE /\ tpc' = "load"
             /\ UNCHANGED <<events, outcome, failure>>
    /\ UNCHANGED <<xvars, svars, pvars, tjob, tkind, rows, nseq, calib, stages>>

\* SimpleTrainer.load_and_preprocess_data
T_Load ==
    /\ tkind = "trainer" /\ tpc = "load"
    /\ \E readOk \in BOOLEAN, found \in BOOLEAN, r \in T_RowChoices :
        IF ~readOk
        THEN /\ Raise("Loading", "DataError", <<Progress(10)>>, "train_except")
             /\ stages' = stages \o <<"Loading">>
             /\ UNCHANGED rows
        ELSE IF ~found
        THEN /\ Raise("Loading", "EmptyColumnSet", <<Progress(10)>>, "train_except")
             /\ stages' = stages \o <<"Loading">>
             /\ UNCHANGED rows
        ELSE IF r = 0
        THEN /\ Raise("Preprocessing", "EmptyFrame", <<Progress(10)>>, "train_except")
             /\ stages' = stages \o <<"Loading", "Preprocessing">>
             /\ UNCHANGED rows
        ELSE /\ rows' = Min(r, MAX_SAMPLES)
             /\ events' = events \o <<Progress(10), Progress(30)>>
             /\ stages' = stages \o <<"Loading", "Preprocessing">>
             /\ tpc' = "sequences"
             /\ UNCHANGED failure
    /\ UNCHANGED <<xvars, svars, pvars, tjob, tkind, nseq, calib, outcome>>

\* SimpleTrainer.create_sequences: range(len(data) - SEQUENCE_LENGTH + 1) is
\* empty when the frame is shorter than one window, and nothing is raised.
T_Sequences ==
    /\ tkind = "trainer" /\ tpc = "sequences"
    /\ nseq' = Max(0, rows - SEQUENCE_LENGTH + 1)
    /\ events' = events \o <<Progress(40)>>
    /\ stages' = stages \o <<"WindowBuilding">>
    /\ tpc' = "train_model"
    /\ UNCHANGED <<xvars, svars, pvars, tjob, tkind, rows, calib, failure, outcome>>

\* Progress printed by the epoch callback of trainer.py after epoch e.
T_EpochProgress(e) == Progress(60 + (e * 20) \div EPOCHS)

T_EpochEvents(k) == [e \in 1..k |-> T_EpochProgress(e)]

\* SimpleTrainer.train_model (with build_model and the epoch callback).  An
\* empty sequence array has shape (0,), so X_train.shape[1] raises
\* IndexError before the model is built.
T_TrainModel ==
    /\ tkind = "trainer" /\ tpc = "train_model"
    /\ stages' = stages \o <<"Training">>
    /\ IF nseq = 0
       THEN Raise("Training", "IndexError", <<Progress(60)>>, "train_except")
       ELSE \E fitOk \in BOOLEAN, k \in 0..(EPOCHS - 1) :
            IF ~fitOk
            THEN Raise("Training", "FitError",
                       <<Progress(60), Progress(50)>> \o T_EpochEvents(k),
                       "train_except")
            ELSE /\ events' = events \o <<Progress(60), Progress(50)>>
                                     \o T_EpochEvents(EPOCHS) \o <<Progress(80)>>
                 /\ tpc' = "threshold"
                 /\ UNCHANGED failure
    /\ UNCHANGED <<xvars, svars, pvars, tjob, tkind, rows, nseq, calib, outcome>>

\* SimpleTrainer.calculate_threshold: percentiles of the errors as they
\* are; NaN errors give a NaN threshold and no exception.
T_Threshold ==
    /\ tkind = "trainer" /\ tpc = "threshold"
    /\ stages' = stages \o <<"ThresholdCalibration">>
    /\ \E predictOk \in BOOLEAN, loss \in {"finite", "nan"} :
        IF ~predictOk
        THEN /\ Raise("ThresholdCalibration", "FitError", <<Progress(85)>>, "train_except")
             /\ UNCHANGED calib
        ELSE /\ calib' = loss
             /\ events' = events \o <<Progress(85)>>
             /\ tpc' = "save_model"
             /\ UNCHANGED failure
    /\ UNCHANGED <<xvars, svars, pvars, tjob, tkind, rows, nseq, outcome>>

\* SimpleTrainer.save_model, one step per file written: model.h5,
\* scaler.pkl, columns.json and training_stats.json (no threshold.json).
T_SaveModel ==
    /\ tkind = "trainer" /\ tpc = "save_model"
    /\ stages' = stages \o <<"Persisting">>
    /\ \E ioOk \in BOOLEAN :
        IF ~ioOk
        THEN /\ Raise("Persisting", "IOError", <<Progress(90)>>, "train_except")
             /\ UNCHANGED store
        ELSE /\ store' = [store EXCEPT ![ModelFile] = tjob]
             /\ events' = events \o <<Progress(90)>>
             /\ tpc' = "save_scaler"
             /\ UNCHANGED failure
    /\ UNCHANGED <<xvars, thresholdKey, pvars, tjob, tkind, rows, nseq, calib, outcome>>

T_SaveScaler ==
    /\ tkind = "trainer" /\ tpc = "save_scaler"
    /\ \E ioOk \in BOOLEAN :
        IF ~ioOk
        THEN /\ Raise("Persisting", "IOError", << >>, "train_except")
             /\ UNCHANGED store
        ELSE /\ store' = [store EXCEPT ![ScalerFile] = tjob]
             /\ tpc' = "save_columns"
             /\ UNCHANGED <<events, failure>>
    /\ UNCHANGED <<xvars, thresholdKey, pvars, tjob, tkind, rows, nseq, calib, stages, outcome>>

T_SaveColumns ==
    /\ tkind = "trainer" /\ tpc = "save_columns"
    /\ \E ioOk \in BOOLEAN :
        IF ~ioOk
        THEN /\ Raise("Persisting", "IOError", << >>, "train_except")
             /\ UNCHANGED store
        ELSE /\ store' = [store EXCEPT ![ColumnsFile] = tjob]
             /\ tpc' = "save_stats"
             /\ UNCHANGED <<events, failure>>
    /\ UNCHANGED <<xvars, thresholdKey, pvars, tjob, tkind, rows, nseq, calib, stages, outcome>>

T_SaveStats ==
    /\ tkind = "trainer" /\ tpc = "save_stats"
    /\ \E ioOk \in BOOLEAN :
        IF ~ioOk
        THEN /\ Raise("Persisting", "IOError", << >>, "train_except")
             /\ UNCHANGED <<store, stages>>
        ELSE /\ store' = [store EXCEPT ![StatsFile] = tjob]
             /\ events' = events \o <<Progress(100)>>
             /\ stages' = stages \o <<"Completed">>
             /\ tpc' = "main_success"
             /\ UNCHANGED failure
    /\ UNCHANGED <<xvars, thresholdKey, pvars, tjob, tkind, rows, nseq, calib, outcome>>

\* The except clause of SimpleTrainer.train prints an error envelope and
\* re-raises.
T_TrainExcept ==
    /\ tkind = "trainer" /\ tpc = "train_except"
    /\ events' = events \o <<ErrorEnvelope>>
    /\ tpc' = "main_except"
    /\ UNCHANGED <<xvars, svars, pvars, tjob, tkind, rows, nseq, calib, stages, failure, outcome>>

\* main(): the success envelope after train() returned.
T_MainSuccess ==
    /\ tkind = "trainer" /\ tpc = "main_success"
    /\ events' = events \o <<SuccessEnvelope>>
    /\ outcome' = "success"
    /\ tpc' = "done"
    /\ UNCHANGED <<xvars, svars, pvars, tjob, tkind, rows, nseq, calib, stages, failure>>

\* main(): the except clause prints an error envelope and exits 1.
T_MainExcept ==
    /\ tkind = "trainer" /\ tpc = "main_except"
    /\ events' = events \o <<ErrorEnvelope>>
    /\ stages' = stages \o <<"Failed">>
    /\ outcome' = "failed"
    /\ tpc' = "done"
    /\ UNCHANGED <<xvars, svars, pvars, tjob, tkind, rows, nseq, calib, failure>>

\* ===================================================== anomaly.py, training
\* The __main__ block in train mode: argument count, row limit, sensor list.
\* A wrong argument count prints FATAL on stderr and exits 1.
A_Main ==
    /\ tkind = "anomaly" /\ tpc = "main"
    /\ \E argsOk \in BOOLEAN :
        IF ~argsOk
        THEN /\ outcome' = "usage"
             /\ tpc' = "done"
             /\ failure' = [stage |-> "Initializing", kind |-> "UsageError"]
        ELSE /\ tpc' = "load"
             /\ UNCHANGED <<outcome, failure>>
    /\ UNCHANGED <<xvars, svars, pvars, tjob, tkind, rows, nseq, calib, events, stages>>

\* run_training_pipeline, STAGE 1: delimiter, header, sensors present,
\* timestamp column, the read bounded by row_limit.
A_Load ==
    /\ tkind = "anomaly" /\ tpc = "load"
    /\ stages' = stages \o <<"Loading">>
    /\ \E readOk \in BOOLEAN, tsFound \in BOOLEAN :
        IF ~readOk
        THEN Raise("Loading", "DataError", <<Progress(10)>>, "except")
        ELSE IF ~tsFound
        THEN Raise("Loading", "NoTimestamp", <<Progress(10)>>, "except")
        ELSE /\ events' = events \o <<Progress(10)>>
             /\ tpc' = "preprocess"
             /\ UNCHANGED failure
    /\ UNCHANGED <<xvars, svars, pvars, tjob, tkind, rows, nseq, calib, outcome>>

\* Rows left by the smart sampling of run_training_pipeline: the most recent
\* 70% of the cap plus a strided sample of the older rows.
A_Downsample(n) ==
    IF n > max_training_rows
    THEN LET recent_count == (max_training_rows * 7) \div 10
             historical_count == max_training_rows - recent_count
             historical == n - recent_count
         IN  IF historical > historical_count
             THEN LET step == historical \div historical_count
                      strided == (historical + step - 1) \div step
                  IN  Min(strided, historical_count) + recent_count
             ELSE n
    ELSE n

\* STAGE 2: feature selection, dropna, empty check, downsampling.  A frame
\* without sensor columns is empty as well.
A_Preprocess ==
    /\ tkind = "anomaly" /\ tpc = "preprocess"
    /\ stages' = stages \o <<"Preprocessing">>
    /\ \E r \in A_RowChoices, found \in BOOLEAN :
        IF r = 0 \/ ~found
        THEN /\ Raise("Preprocessing", "EmptyFrame", <<Progress(25)>>, "except")
             /\ UNCHANGED rows
        ELSE /\ rows' = A_Downsample(r)
             /\ events' = events \o <<Progress(25)>>
             /\ tpc' = "write_columns"
             /\ UNCHANGED failure
    /\ UNCHANGED <<xvars, svars, pvars, tjob, tkind, nseq, calib, outcome>>

\* columns.json is written as soon as the feature frame is known.
A_WriteColumns ==
    /\ tkind = "anomaly" /\ tpc = "write_columns"
    /\ \E ioOk \in BOOLEAN :
        IF ~ioOk
        THEN /\ Raise("Preprocessing", "IOError", << >>, "except")
             /\ UNCHANGED store
        ELSE /\ store' = [store EXCEPT ![ColumnsFile] = tjob]
             /\ tpc' = "write_scaler"
             /\ UNCHANGED <<events, failure>>
    /\ UNCHANGED <<xvars, thresholdKey, pvars, tjob, tkind, rows, nseq, calib, stages, outcome>>

\* The scaler is fitted and dumped to scaler.pkl.
A_WriteScaler ==
    /\ tkind = "anomaly" /\ tpc = "write_scaler"
    /\ \E ioOk \in BOOLEAN :
        IF ~ioOk
        THEN /\ Raise("Preprocessing", "IOError", << >>, "except")
             /\ UNCHANGED store
        ELSE /\ store' = [store EXCEPT ![ScalerFile] = tjob]
             /\ tpc' = "sequences"
             /\ UNCHANGED <<events, failure>>
    /\ UNCHANGED <<xvars, thresholdKey, pvars, tjob, tkind, rows, nseq, calib, stages, outcome>>

\* create_sequences(scaler.transform(df_features)): raises ValueError when
\* the frame is shorter than SEQUENCE_LEN.
A_Sequences ==
    /\ tkind = "anomaly" /\ tpc = "sequences"
    /\ stages' = stages \o <<"WindowBuilding">>
    /\ IF rows < SEQUENCE_LEN
       THEN /\ Raise("WindowBuilding", "InsufficientData", << >>, "except")
            /\ UNCHANGED nseq
       ELSE /\ nseq' = rows - SEQUENCE_LEN + 1
            /\ tpc' = "fit"
            /\ UNCHANGED <<events, failure>>
    /\ UNCHANGED <<xvars, svars, pvars, tjob, tkind, rows, calib, outcome>>

\* Progress printed by ProgressCallback.on_epoch_end after epoch e (1-based).
A_EpochProgress(e) == Progress(50 + (e * 40) \div N_EPOCHS)

A_EpochEvents(k) == [e \in 1..k |-> A_EpochProgress(e)]

\* STAGE 3: the model is built and fitted for N_EPOCHS epochs.
A_Fit ==
    /\ tkind = "anomaly" /\ tpc = "fit"
    /\ stages' = stages \o <<"Training">>
    /\ \E fitOk \in BOOLEAN, k \in 0..(N_EPOCHS - 1) :
        IF ~fitOk
        THEN Raise("Training", "FitError", <<Progress(50)>> \o A_EpochEvents(k), "except")
        ELSE /\ events' = events \o <<Progress(50)>> \o A_EpochEvents(N_EPOCHS)
             /\ tpc' = "save_model"
             /\ UNCHANGED failure
    /\ UNCHANGED <<xvars, svars, pvars, tjob, tkind, rows, nseq, calib, outcome>>

\* The model is saved right after the fit: model.h5, or, when that save
\* fails, model_weights.h5 and model_config.json in its place.
A_SaveModel ==
    /\ tkind = "anomaly" /\ tpc = "save_model"
    /\ \E saveOk \in BOOLEAN, fallbackOk \in BOOLEAN :
        IF saveOk
        THEN /\ store' = [store EXCEPT ![ModelFile] = tjob]
             /\ tpc' = "threshold"
             /\ UNCHANGED <<events, failure>>
        ELSE IF fallbackOk
        THEN /\ store' = [store EXCEPT ![WeightsFile] = tjob, ![ConfigFile] = tjob]
             /\ tpc' = "threshold"
             /\ UNCHANGED <<events, failure>>
        ELSE /\ Raise("Training", "IOError", << >>, "except")
             /\ UNCHANGED store
    /\ UNCHANGED <<xvars, thresholdKey, pvars, tjob, tkind, rows, nseq, calib, stages, outcome>>

\* STAGE 4: reconstruction losses of the training sequences; NaN/Inf losses
\* are filtered out, and an empty rest raises ValueError.
A_Threshold ==
    /\ tkind = "anomaly" /\ tpc = "threshold"
    /\ stages' = stages \o <<"ThresholdCalibration">>
    /\ \E predictOk \in BOOLEAN, loss \in {"finite", "some_nan", "all_nan"} :
        IF ~predictOk
        THEN /\ Raise("ThresholdCalibration", "FitError", <<Progress(90)>>, "except")
             /\ UNCHANGED calib
        ELSE IF loss = "all_nan"
        THEN /\ Raise("ThresholdCalibration", "DegenerateErrorDistribution",
                      <<Progress(90)>>, "except")
             /\ UNCHANGED calib
        ELSE /\ calib' = "finite"
             /\ events' = events \o <<Progress(90)>>
             /\ tpc' = "write_threshold"
             /\ UNCHANGED failure
    /\ UNCHANGED <<xvars, svars, pvars, tjob, tkind, rows, nseq, outcome>>

\* threshold.json is written, then STAGE 5: progress 100 and the success
\* envelope.
A_WriteThreshold ==
    /\ tkind = "anomaly" /\ tpc = "write_threshold"
    /\ \E ioOk \in BOOLEAN :
        IF ~ioOk
        THEN /\ Raise("Persisting", "IOError", << >>, "except")
             /\ stages' = stages \o <<"Persisting">>
             /\ UNCHANGED <<store, thresholdKey, outcome>>
        ELSE /\ store' = [store EXCEPT ![ThresholdFile] = tjob]
             /\ thresholdKey' = TRUE
             /\ events' = events \o <<Progress(100), SuccessEnvelope>>
             /\ stages' = stages \o <<"Persisting", "Completed">>
             /\ outcome' = "success"
             /\ tpc' = "done"
             /\ UNCHANGED failure
    /\ UNCHANGED <<xvars, pvars, tjob, tkind, rows, nseq, calib>>

\* The catch-all except of run_training_pipeline prints the failure envelope.
A_Except ==
    /\ tkind = "anomaly" /\ tpc = "except"
    /\ events' = events \o <<ErrorEnvelope>>
    /\ stages' = stages \o <<"Failed">>
    /\ outcome' = "failed"
    /\ tpc' = "done"
    /\ UNCHANGED <<xvars, svars, pvars, tjob, tkind, rows, nseq, calib, failure>>

\* ======================================================== simple_trainer.py
Info == Message("info")
Good == Message("success")
Warn == Message("warning")
Bad == Message("error")

\* main(): argument count and CSV path are checked (exit 1, nothing
\* printed), then UltraSimpleTrainer is constructed.
U_Main ==
    /\ tkind = "ultra" /\ tpc = "main"
    /\ \E argsOk \in BOOLEAN, constructOk \in BOOLEAN :
        IF ~argsOk
        THEN /\ outcome' = "usage"
             /\ tpc' = "done"
             /\ failure' = [stage |-> "Initializing", kind |-> "UsageError"]
        ELSE IF ~constructOk
        THEN /\ failure' = [stage |-> "Initializing", kind |-> "InitError"]
             /\ tpc' = "main_except"
             /\ UNCHANGED outcome
        ELSE /\ tpc' = "load"
             /\ UNCHANGED <<outcome, failure>>
    /\ UNCHANGED <<xvars, svars, pvars, tjob, tkind, rows, nseq, calib, events, stages>>

\* Events of UltraSimpleTrainer.load_and_preprocess_data up to each of
\* its points of failure.
U_UntilFile == <<Progress(1), Info, Progress(2)>>
U_UntilHeader == U_UntilFile \o <<Info, Progress(3), Info, Info, Progress(4), Info, Progress(5)>>
U_UntilColumns(fallback) ==
    U_UntilHeader \o <<Info, Progress(6), Info>>
                  \o (IF fallback THEN <<Progress(7), Info>> ELSE << >>)
U_UntilRead(fallback) == U_UntilColumns(fallback) \o <<Progress(8), Info, Progress(9), Info>>
U_UntilEmpty(fallback, missing) ==
    U_UntilRead(fallback) \o <<Info, Progress(10), Info>>
                          \o (IF missing THEN <<Warn>> ELSE << >>)
U_UntilScale(fallback, missing, sampled) ==
    U_UntilEmpty(fallback, missing) \o <<Progress(12)>>
        \o (IF sampled THEN <<Info>> ELSE << >>) \o <<Progress(15), Info>>
U_Loaded(fallback, missing, sampled) ==
    U_UntilScale(fallback, missing, sampled) \o <<Good, Progress(20), Good>>

\* UltraSimpleTrainer.load_and_preprocess_data.  Its except clause prints an
\* error message event and re-raises.
U_Load ==
    /\ tkind = "ultra" /\ tpc = "load"
    /\ \E failAt \in {"none", "file", "header", "columns", "read", "scale"},
          in \in U_Inputs :
        LET r == in.rows
            fallback == in.fallback
            missing == in.missing
            sampled == r > max_samples
        IN
        IF failAt = "file"
        THEN /\ Raise("Loading", "DataError", U_UntilFile \o <<Bad>>, "train_except")
             /\ stages' = stages \o <<"Loading">>
             /\ UNCHANGED rows
        ELSE IF failAt = "header"
        THEN /\ Raise("Loading", "DataError", U_UntilHeader \o <<Bad>>, "train_except")
             /\ stages' = stages \o <<"Loading">>
             /\ UNCHANGED rows
        ELSE IF failAt = "columns"
        THEN /\ Raise("Loading", "EmptyColumnSet", U_UntilColumns(TRUE) \o <<Bad>>,
                      "train_except")
             /\ stages' = stages \o <<"Loading">>
             /\ UNCHANGED rows
        ELSE IF failAt = "read"
        THEN /\ Raise("Loading", "DataError", U_UntilRead(fallback) \o <<Bad>>,
                      "train_except")
             /\ stages' = stages \o <<"Loading">>
             /\ UNCHANGED rows
        ELSE IF r = 0
        THEN /\ Raise("Preprocessing", "EmptyFrame",
                      U_UntilEmpty(fallback, missing) \o <<Bad>>, "train_except")
             /\ stages' = stages \o <<"Loading", "Preprocessing">>
             /\ UNCHANGED rows
        ELSE IF failAt = "scale"
        THEN /\ Raise("Preprocessing", "ScaleError",
                      U_UntilScale(fallback, missing, sampled) \o <<Bad>>, "train_except")
             /\ stages' = stages \o <<"Loading", "Preprocessing">>
             /\ UNCHANGED rows
        ELSE /\ rows' = Min(r, max_samples)
             /\ events' = events \o U_Loaded(fallback, missing, sampled)
             /\ stages' = stages \o <<"Loading", "Preprocessing">>
             /\ tpc' = "train_model"
             /\ UNCHANGED failure
    /\ UNCHANGED <<xvars, svars, pvars, tjob, tkind, nseq, calib, outcome>>

\* Events of one pass of the epoch loop of train_model (epoch is 0-based).
U_EpochStart(epoch) == <<Progress(35 + epoch * 20), Info>>
U_EpochEnd(epoch) == <<Heartbeat, Progress(35 + epoch * 20 + 15), Good>>

RECURSIVE U_EpochEvents(_)
U_EpochEvents(n) ==
    IF n = 0 THEN << >>
    ELSE U_EpochEvents(n - 1) \o U_EpochStart(n - 1) \o U_EpochEnd(n - 1)

\* UltraSimpleTrainer.train_model (with build_simple_model): one epoch for
\* a pretrained start, two otherwise; the rows themselves are the samples.
U_TrainModel ==
    /\ tkind = "ultra" /\ tpc = "train_model"
    /\ stages' = stages \o <<"Training">>
    /\ \E is_pretrained \in BOOLEAN, fitOk \in BOOLEAN :
        LET epochs == IF is_pretrained THEN 1 ELSE 2
            start == <<Progress(25), Info, Heartbeat, Progress(30), Info, Info, Good,
                       Info, Info>>
        IN  \E k \in 0..(epochs - 1) :
            IF ~fitOk
            THEN Raise("Training", "FitError",
                       start \o U_EpochEvents(k) \o U_EpochStart(k), "train_except")
            ELSE /\ events' = events \o start \o U_EpochEvents(epochs)
                                     \o <<Progress(80), Good>>
                 /\ tpc' = "threshold"
                 /\ UNCHANGED failure
    /\ UNCHANGED <<xvars, svars, pvars, tjob, tkind, rows, nseq, calib, outcome>>

\* UltraSimpleTrainer.calculate_threshold: batches of 200 rows, a heartbeat
\* at every batch whose start index is a multiple of 1000, percentiles of
\* the errors as they are (NaN errors give a NaN threshold, no exception).
U_Threshold ==
    /\ tkind = "ultra" /\ tpc = "threshold"
    /\ stages' = stages \o <<"ThresholdCalibration">>
    /\ \E predictOk \in BOOLEAN, loss \in {"finite", "nan"} :
        IF ~predictOk
        THEN /\ Raise("ThresholdCalibration", "FitError", <<Progress(85), Info>>,
                      "train_except")
             /\ UNCHANGED calib
        ELSE /\ calib' = loss
             /\ events' = events \o <<Progress(85), Info, Heartbeat, Good, Info>>
             /\ tpc' = "save_model"
             /\ UNCHANGED failure
    /\ UNCHANGED <<xvars, svars, pvars, tjob, tkind, rows, nseq, outcome>>

\* UltraSimpleTrainer.save_model, one step per file written.  Its except
\* clause prints an error message event and re-raises.
U_SaveModel ==
    /\ tkind = "ultra" /\ tpc = "save_model"
    /\ stages' = stages \o <<"Persisting">>
    /\ \E ioOk \in BOOLEAN :
        IF ~ioOk
        THEN /\ Raise("Persisting", "IOError", <<Progress(90), Info, Bad>>, "train_except")
             /\ UNCHANGED store
        ELSE /\ store' = [store EXCEPT ![ModelFile] = tjob]
             /\ events' = events \o <<Progress(90), Info, Good>>
             /\ tpc' = "save_scaler"
             /\ UNCHANGED failure
    /\ UNCHANGED <<xvars, thresholdKey, pvars, tjob, tkind, rows, nseq, calib, outcome>>

U_SaveScaler ==
    /\ tkind = "ultra" /\ tpc = "save_scaler"
    /\ \E ioOk \in BOOLEAN :
        IF ~ioOk
        THEN /\ Raise("Persisting", "IOError", <<Bad>>, "train_except")
             /\ UNCHANGED store
        ELSE /\ store' = [store EXCEPT ![ScalerFile] = tjob]
             /\ events' = events \o <<Good>>
             /\ tpc' = "save_columns"
             /\ UNCHANGED failure
    /\ UNCHANGED <<xvars, thresholdKey, pvars, tjob, tkind, rows, nseq, calib, stages, outcome>>

U_SaveColumns ==
    /\ tkind = "ultra" /\ tpc = "save_columns"
    /\ \E ioOk \in BOOLEAN :
        IF ~ioOk
        THEN /\ Raise("Persisting", "IOError", <<Bad>>, "train_except")
             /\ UNCHANGED store
        ELSE /\ store' = [store EXCEPT ![ColumnsFile] = tjob]
             /\ events' = events \o <<Good>>
             /\ tpc' = "save_threshold"
             /\ UNCHANGED failure
    /\ UNCHANGED <<xvars, thresholdKey, pvars, tjob, tkind, rows, nseq, calib, stages, outcome>>

\* threshold.json receives the statistics of calculate_threshold, which
\* always carry a "threshold" field.
U_SaveThreshold ==
    /\ tkind = "ultra" /\ tpc = "save_threshold"
    /\ \E ioOk \in BOOLEAN :
        IF ~ioOk
        THEN /\ Raise("Persisting", "IOError", <<Bad>>, "train_except")
             /\ UNCHANGED <<store, thresholdKey>>
        ELSE /\ store' = [store EXCEPT ![ThresholdFile] = tjob]
             /\ thresholdKey' = TRUE
             /\ tpc' = "save_stats"
             /\ UNCHANGED <<events, failure>>
    /\ UNCHANGED <<xvars, pvars, tjob, tkind, rows, nseq, calib, stages, outcome>>

\* training_stats.json, then train() prints progress 100 and returns.
U_SaveStats ==
    /\ tkind = "ultra" /\ tpc = "save_stats"
    /\ \E ioOk \in BOOLEAN :
        IF ~ioOk
        THEN /\ Raise("Persisting", "IOError", <<Bad>>, "train_except")
             /\ UNCHANGED <<store, stages>>
        ELSE /\ store' = [store EXCEPT ![StatsFile] = tjob]
             /\ events' = events \o <<Good, Good, Progress(100), Good>>
             /\ stages' = stages \o <<"Completed">>
             /\ tpc' = "main_success"
             /\ UNCHANGED failure
    /\ UNCHANGED <<xvars, thresholdKey, pvars, tjob, tkind, rows, nseq, calib, outcome>>

\* The except clause of UltraSimpleTrainer.train prints an error message
\* event (not an envelope) and re-raises.
U_TrainExcept ==
    /\ tkind = "ultra" /\ tpc = "train_except"
    /\ events' = events \o <<Bad>>
    /\ tpc' = "main_except"
    /\ UNCHANGED <<xvars, svars, pvars, tjob, tkind, rows, nseq, calib, stages, failure, outcome>>

\* main(): SUCCESS envelope, then sys.exit(0).
U_MainSuccess ==
    /\ tkind = "ultra" /\ tpc = "main_success"
    /\ events' = events \o <<SuccessEnvelope>>
    /\ outcome' = "success"
    /\ tpc' = "done"
    /\ UNCHANGED <<xvars, svars, pvars, tjob, tkind, rows, nseq, calib, stages, failure>>

\* main(): the except clause prints the ERROR envelope and exits 1.
U_MainExcept ==
    /\ tkind = "ultra" /\ tpc = "main_except"
    /\ events' = events \o <<ErrorEnvelope>>
    /\ stages' = stages \o <<"Failed">>
    /\ outcome' = "failed"
    /\ tpc' = "done"
    /\ UNCHANGED <<xvars, svars, pvars, tjob, tkind, rows, nseq, calib, failure>>

\* ======================================================= inference runs
\* A caller starts an inference run on the key.
StartPrediction ==
    /\ ppc \in {"idle", "done"}
    /\ \E k \in {"simple", "anomaly"} : pkind' = k
    /\ ppc' = "main"
    /\ loaded' = [f \in Bundle |-> Absent]
    /\ pthr' = "none"
    /\ presult' = "none"
    /\ UNCHANGED <<xvars, svars, tvars>>

\* The run ends without a prediction.
FailPrediction ==
    /\ presult' = "failed"
    /\ ppc' = "done"

\* --------------------------------------------------- simple_predictor.py
\* main(): argument count and CSV path are checked, SimplePredictor is
\* constructed.
P_Main ==
    /\ pkind = "simple" /\ ppc = "main"
    /\ \E argsOk \in BOOLEAN :
        IF argsOk
        THEN ppc' = "load_model" /\ UNCHANGED presult
        ELSE ppc' = "done" /\ presult' = "usage"
    /\ UNCHANGED <<xvars, svars, tvars, pkind, loaded, pthr>>

\* load_model_and_params reads the four files one after the other; a missing
\* file or a failing load makes it return False, and main() exits 1.
P_Load(file, next) ==
    /\ \E loadOk \in BOOLEAN :
        IF store[file] = Absent \/ ~loadOk
        THEN FailPrediction /\ UNCHANGED loaded
        ELSE /\ loaded' = [loaded EXCEPT ![file] = store[file]]
             /\ ppc' = next
             /\ UNCHANGED presult

P_LoadModel ==
    /\ pkind = "simple" /\ ppc = "load_model"
    /\ P_Load(ModelFile, "load_scaler")
    /\ UNCHANGED <<xvars, svars, tvars, pkind, pthr>>

P_LoadScaler ==
    /\ pkind = "simple" /\ ppc = "load_scaler"
    /\ P_Load(ScalerFile, "load_columns")
    /\ UNCHANGED <<xvars, svars, tvars, pkind, pthr>>

P_LoadColumns ==
    /\ pkind = "simple" /\ ppc = "load_columns"
    /\ P_Load(ColumnsFile, "load_threshold")
    /\ UNCHANGED <<xvars, svars, tvars, pkind, pthr>>

\* threshold_data.get('threshold', 1.0)
P_ThresholdSource == IF thresholdKey THEN "stored" ELSE "default"

P_LoadThreshold ==
    /\ pkind = "simple" /\ ppc = "load_threshold"
    /\ P_Load(ThresholdFile, "predict")
    /\ pthr' = IF ppc' = "predict" THEN P_ThresholdSource ELSE pthr
    /\ UNCHANGED <<xvars, svars, tvars, pkind>>

\* load_and_preprocess_data, predict and the SUCCESS envelope of main(), or
\* the ERROR envelope of its except clause.
P_Predict ==
    /\ pkind = "simple" /\ ppc = "predict"
    /\ \E runOk \in BOOLEAN :
        IF runOk
        THEN presult' = "prediction" /\ ppc' = "done"
        ELSE FailPrediction
    /\ UNCHANGED <<xvars, svars, tvars, pkind, loaded, pthr>>

\* ------------------------------------------------- anomaly.py, prediction
\* The __main__ block in predict mode.
R_Main ==
    /\ pkind = "anomaly" /\ ppc = "main"
    /\ \E argsOk \in BOOLEAN :
        IF argsOk
        THEN ppc' = "check_files" /\ UNCHANGED presult
        ELSE ppc' = "done" /\ presult' = "usage"
    /\ UNCHANGED <<xvars, svars, tvars, pkind, loaded, pthr>>

\* run_prediction: the four os.path.exists checks.  No program removes a
\* file of the store, so the four checks are taken in one step.
R_CheckFiles ==
    /\ pkind = "anomaly" /\ ppc = "check_files"
    /\ IF \E f \in Bundle : store[f] = Absent
       THEN FailPrediction
       ELSE ppc' = "load_input" /\ UNCHANGED presult
    /\ UNCHANGED <<xvars, svars, tvars, pkind, loaded, pthr>>

\* The sensor reading is read from its JSON file.
R_LoadInput ==
    /\ pkind = "anomaly" /\ ppc = "load_input"
    /\ \E inputOk \in BOOLEAN :
        IF inputOk
        THEN ppc' = "load_model" /\ UNCHANGED presult
        ELSE FailPrediction
    /\ UNCHANGED <<xvars, svars, tvars, pkind, loaded, pthr>>

R_Load(file, next) ==
    /\ \E loadOk \in BOOLEAN :
        IF ~loadOk
        THEN FailPrediction /\ UNCHANGED loaded
        ELSE /\ loaded' = [loaded EXCEPT ![file] = store[file]]
             /\ ppc' = next
             /\ UNCHANGED presult

R_LoadModel ==
    /\ pkind = "anomaly" /\ ppc = "load_model"
    /\ R_Load(ModelFile, "load_scaler")
    /\ UNCHANGED <<xvars, svars, tvars, pkind, pthr>>

R_LoadScaler ==
    /\ pkind = "anomaly" /\ ppc = "load_scaler"
    /\ R_Load(ScalerFile, "load_columns")
    /\ UNCHANGED <<xvars, svars, tvars, pkind, pthr>>

R_LoadColumns ==
    /\ pkind = "anomaly" /\ ppc = "load_columns"
    /\ R_Load(ColumnsFile, "load_threshold")
    /\ UNCHANGED <<xvars, svars, tvars, pkind, pthr>>

\* threshold_data['threshold'] raises KeyError when the field is missing.
R_LoadThreshold ==
    /\ pkind = "anomaly" /\ ppc = "load_threshold"
    /\ IF thresholdKey
       THEN /\ R_Load(ThresholdFile, "predict")
            /\ pthr' = IF ppc' = "predict" THEN "stored" ELSE pthr
       ELSE FailPrediction /\ UNCHANGED <<loaded, pthr>>
    /\ UNCHANGED <<xvars, svars, tvars, pkind>>

\* The value count is checked against the stored columns, the reading is
\* replicated, scaled and scored, and the result is printed.
R_Predict ==
    /\ pkind = "anomaly" /\ ppc = "predict"
    /\ \E countOk \in BOOLEAN, predictOk \in BOOLEAN :
        IF countOk /\ predictOk
        THEN presult' = "prediction" /\ ppc' = "done"
        ELSE FailPrediction
    /\ UNCHANGED <<xvars, svars, tvars, pkind, loaded, pthr>>

\* ------------------------------------------------------------------------
\* Stores found at the start: nothing; a complete bundle of an earlier
\* training; model.h5 and scaler.pkl alone, as retrain_pretrained_model.py
\* leaves them; a bundle whose threshold.json, put there by another tool,
\* has no "threshold" field.
InitialStores ==
    { [f \in Files |-> Absent],
      [f \in Files |-> IF f \in Bundle THEN Prior ELSE Absent],
      [f \in Files |-> IF f \in {ModelFile, ScalerFile} THEN Prior ELSE Absent] }

StoreInit ==
    /\ store \in InitialStores
    /\ thresholdKey \in BOOLEAN
    /\ (store[ThresholdFile] = Absent => thresholdKey = FALSE)

EmptyStore ==
    /\ store = [f \in Files |-> Absent]
    /\ thresholdKey = FALSE

JobIdle ==
    /\ tjob = 0
    /\ tkind = "none"
    /\ tpc = "idle"
    /\ rows = 0
    /\ nseq = -1
    /\ calib = "none"
    /\ events = << >>
    /\ stages = << >>
    /\ failure = NoFailure
    /\ outcome = "none"

PredictorIdle ==
    /\ pkind = "none"
    /\ ppc = "idle"
    /\ loaded = [f \in Bundle |-> Absent]
    /\ pthr = "none"
    /\ presult = "none"

WinIdle ==
    /\ w_data = << >>
    /\ w_len = 0
    /\ w_L = 0
    /\ w_out = << >>
    /\ w_pc = "idle"

ColsIdle ==
    /\ c_cols = << >>
    /\ c_req = << >>
    /\ c_out = << >>
    /\ c_err = "none"
    /\ c_pc = "idle"

FnIdle ==
    /\ f_in = << >>
    /\ f_out = << >>
    /\ f_pc = "idle"

Init == StoreInit /\ JobIdle /\ PredictorIdle /\ WinIdle /\ ColsIdle /\ FnIdle

Next ==
    \/ StartJob
    \/ T_Main \/ T_Load \/ T_Sequences \/ T_TrainModel \/ T_Threshold
    \/ T_SaveModel \/ T_SaveScaler \/ T_SaveColumns \/ T_SaveStats
    \/ T_TrainExcept \/ T_MainSuccess \/ T_MainExcept
    \/ A_Main \/ A_Load \/ A_Preprocess \/ A_WriteColumns \/ A_WriteScaler
    \/ A_Sequences \/ A_Fit \/ A_SaveModel \/ A_Threshold \/ A_WriteThreshold
    \/ A_Except
    \/ U_Main \/ U_Load \/ U_TrainModel \/ U_Threshold
    \/ U_SaveModel \/ U_SaveScaler \/ U_SaveColumns \/ U_SaveThreshold
    \/ U_SaveStats \/ U_TrainExcept \/ U_MainSuccess \/ U_MainExcept
    \/ StartPrediction
    \/ P_Main \/ P_LoadModel \/ P_LoadScaler \/ P_LoadColumns \/ P_LoadThreshold
    \/ P_Predict
    \/ R_Main \/ R_CheckFiles \/ R_LoadInput \/ R_LoadModel \/ R_LoadScaler
    \/ R_LoadColumns \/ R_LoadThreshold \/ R_Predict

Spec == Init /\ [][Next]_vars

\* ========================================================== claims on Spec
Range(seq) == {seq[i] : i \in DOMAIN seq}

TerminalCount == Cardinality({i \in DOMAIN events : IsTerminal(events[i])})

\* The job ran and ended (an argument error that keeps the job from starting
\* is a usage error, which owes no terminal event).
JobEnded == tpc = "done" /\ outcome \in {"success", "failed"}

\* C1: every training job that has ended, whichever stage failed or none,
\* has printed exactly one terminal envelope (success or error), and that
\* envelope is the last event it printed.
C1_ExactlyOneTerminalEventLast ==
    JobEnded =>
        /\ TerminalCount = 1
        /\ IsTerminal(events[Len(events)])

\* C2: when a training job has printed its success envelope, model.h5,
\* scaler.pkl, columns.json and threshold.json are all in the store.
C2_SuccessHasFourArtifacts ==
    (tpc = "done" /\ outcome = "success") =>
        \A f \in Bundle : store[f] # Absent

\* C3: a training job that failed in model fitting or in threshold
\* calibration (fit failure, all losses NaN/Inf) has written none of the
\* four artifacts.
C3_FailedFitWritesNothing ==
    ( /\ tpc = "done" /\ outcome = "failed"
      /\ failure.stage \in {"Training", "ThresholdCalibration"}
      /\ failure.kind \in {"FitError", "DegenerateErrorDistribution"} )
    => \A f \in Bundle : store[f] # tjob

\* C4: an inference run that returns a prediction has found all four
\* artifacts and a stored threshold; for an incomplete bundle it fails and
\* never puts a default in the place of a missing part.
C4_IncompleteBundleFailsClosed ==
    (ppc = "done" /\ presult = "prediction") =>
        /\ \A f \in Bundle : loaded[f] # Absent
        /\ pthr = "stored"

\* C5: whatever the interleaving with a training job on the same key, an
\* inference run that returns a prediction has loaded four artifacts written
\* by one and the same job.
C5_LoadsOneBundle ==
    (ppc = "done" /\ presult = "prediction") =>
        \A f, g \in Bundle : loaded[f] = loaded[g]

\* C6: when the most recent training job on the key has ended in success,
\* every stored artifact of the bundle is the one that job wrote; none of an
\* earlier job remains.
C6_RetrainingSupersedes ==
    (tpc = "done" /\ outcome = "success") =>
        \A f \in Bundle : store[f] # Absent => store[f] = tjob

StageOrder ==
    <<"Initializing", "Loading", "Preprocessing", "WindowBuilding", "Training",
      "ThresholdCalibration", "Persisting", "Completed">>

IsPrefix(s, t) == Len(s) <= Len(t) /\ \A i \in DOMAIN s : s[i] = t[i]

EnteredStages == SelectSeq(stages, LAMBDA st : st # "Failed")

\* C7: a training job enters its stages in the order Loading, Preprocessing,
\* WindowBuilding, Training, ThresholdCalibration, Persisting, Completed,
\* none skipped or repeated, and writes no artifact of the bundle before its
\* threshold calibration has finished.
C7_StageOrderAndLateWrites ==
    /\ IsPrefix(EnteredStages, StageOrder)
    /\ (tjob > 0 /\ \E f \in Bundle : store[f] = tjob) => calib # "none"

SequenceLengthOf(kind) == IF kind = "trainer" THEN SEQUENCE_LENGTH ELSE SEQUENCE_LEN

\* C9: a job of a window-building trainer whose cleaned frame is not empty
\* but shorter than the sequence length never enters training, and once the
\* window builder has run on it the job ends with InsufficientData raised in
\* WindowBuilding.
C9_ShortFrameInsufficientData ==
    ( /\ tkind \in {"trainer", "anomaly"}
      /\ rows > 0 /\ rows < SequenceLengthOf(tkind) )
    => /\ "Training" \notin Range(stages)
       /\ (tpc = "done" /\ "WindowBuilding" \in Range(stages)) =>
              failure = [stage |-> "WindowBuilding", kind |-> "InsufficientData"]

\* Heartbeats the job has printed.
HeartbeatCount == Cardinality({i \in DOMAIN events : events[i] = Heartbeat})

\* Epochs of a job whose training has finished: the fixed counts of
\* trainer.py and anomaly.py, and for simple_trainer.py the passes of its
\* epoch loop, each of which ends with Progress(35 + 20 * epoch + 15).
EpochsRun ==
    CASE tkind = "trainer" -> EPOCHS
      [] tkind = "anomaly" -> N_EPOCHS
      [] OTHER -> Cardinality({i \in DOMAIN events :
                                  events[i] \in {Progress(50), Progress(70)}})

\* C21: a training job that has gone through its training epochs and has
\* entered threshold calibration has printed at least one heartbeat for
\* every epoch it ran, so no run of epochs passes without a heartbeat.
C21_HeartbeatPerEpoch ==
    (tjob > 0 /\ "ThresholdCalibration" \in Range(stages)) =>
        HeartbeatCount >= EpochsRun

\* C26: the progress values a training job prints never decrease in the
\* order of printing, each lies in 0..100, and once 100 has been printed the
\* job has left its saving steps (no artifact write comes after it).
C26_ProgressMonotone ==
    /\ \A i, j \in DOMAIN events :
          (i < j /\ events[i].type = "progress" /\ events[j].type = "progress")
              => events[i].progress <= events[j].progress
    /\ \A i \in DOMAIN events :
          events[i].type = "progress" => events[i].progress \in 0..100
    /\ Progress(100) \in Range(events) => tpc \in {"main_success", "done"}


\* ============================================================ window builder
\* The two create_sequences functions, applied to matrices drawn from bounded
\* sets.  A matrix is [shape |-> <<rows, columns>>, rows |-> sequence of rows].
MaxWinRows == 12
MaxWinCols == 2
MaxWinLen == 10

Patterns == {"rowno", "cellno"}

\* "rowno": every cell of row r holds r; "cellno": cells are numbered row by row.
Cell(pattern, ncols, r, c) == IF pattern = "rowno" THEN r ELSE (r - 1) * ncols + c

Matrix(pattern, n, ncols) ==
    [shape |-> <<n, ncols>>,
     rows  |-> [r \in 1..n |-> [c \in 1..ncols |-> Cell(pattern, ncols, r, c)]]]

\* range(n): the 0-based indices 0..n-1, none when n <= 0
PyRange(n) == IF n <= 0 THEN << >> ELSE [k \in 1..n |-> k - 1]

\* data[a:b] on the first axis, 0 <= a
PySlice(rws, a, b) == SubSeq(rws, a + 1, Min(b, Len(rws)))

\* numpy sliding_window_view(data, (wr, wc)): view[i][j][r][c] = data[i+r][j+c]
sliding_window_view(data, wr, wc) ==
    [i \in 1..(data.shape[1] - wr + 1) |->
        [j \in 1..(data.shape[2] - wc + 1) |->
            [r \in 1..wr |-> [c \in 1..wc |-> data.rows[i + r - 1][j + c - 1]]]]]

\* squeeze(axis=1) of a view whose second axis has length 1
squeeze1(view) == [i \in DOMAIN view |-> view[i][1]]

\* anomaly.py create_sequences(data, seq_len)
create_sequences(data, seq_len) ==
    IF data.shape[1] < seq_len
    THEN [raised |-> TRUE, out |-> << >>]
    ELSE [raised |-> FALSE,
          out |-> squeeze1(sliding_window_view(data, seq_len, data.shape[2]))]

SimpleTrainer_create_sequences_short(data) ==
    LET idx == PyRange(Len(data.rows) - SEQUENCE_LENGTH)
    IN  [raised |-> FALSE,
         out |-> [k \in DOMAIN idx |-> PySlice(data.rows, idx[k], idx[k] + SEQUENCE_LENGTH)]]

\* trainer.py SimpleTrainer.create_sequences(data)
SimpleTrainer_create_sequences(data) ==
    LET idx == PyRange(Len(data.rows) - SEQUENCE_LENGTH + 1)
    IN  [raised |-> FALSE,
         out |-> [k \in DOMAIN idx |-> PySlice(data.rows, idx[k], idx[k] + SEQUENCE_LENGTH)]]

WinReturn(res, L) ==
    /\ w_L' = L
    /\ w_out' = res.out
    /\ w_pc' = IF res.raised THEN "raised" ELSE "returned"
    /\ UNCHANGED <<w_data, w_len, tvars, pvars, svars, cvars, fvars>>

W_Anomaly ==
    /\ w_pc = "input"
    /\ WinReturn(create_sequences(w_data, w_len), w_len)

W_Trainer ==
    /\ w_pc = "input"
    /\ WinReturn(SimpleTrainer_create_sequences(w_data), SEQUENCE_LENGTH)

InitWin ==
    /\ EmptyStore /\ JobIdle /\ PredictorIdle /\ ColsIdle /\ FnIdle
    /\ w_data \in {Matrix(p, n, c) : p \in Patterns, n \in 0..MaxWinRows, c \in 1..MaxWinCols}
    /\ w_len \in 1..MaxWinLen
    /\ w_L = 0
    /\ w_out = << >>
    /\ w_pc = "input"

NextWin == W_Anomaly \/ W_Trainer

SpecWin == InitWin /\ [][NextWin]_vars

\* C8: for every sequence length L >= 1 and every matrix of N >= L rows the
\* window builder returns (does not raise), the result has exactly N-L+1
\* windows, and window i holds rows i..i+L-1 of the matrix, cell for cell:
\* L rows, each as wide as the matrix.
C8_WindowsAreRowSlices ==
    (w_pc \in {"returned", "raised"} /\ w_data.shape[1] >= w_L) =>
        /\ w_pc = "returned"
        /\ Len(w_out) = w_data.shape[1] - w_L + 1
        /\ \A i \in DOMAIN w_out :
              /\ Len(w_out[i]) = w_L
              /\ \A r \in 1..w_L :
                    /\ Len(w_out[i][r]) = w_data.shape[2]
                    /\ \A c \in 1..w_data.shape[2] :
                          w_out[i][r][c] = w_data.rows[i + r - 1][c]

\* Scenario A: 12 rows of 2 columns, L = 10, three windows of 10 x 2.
C8_ScenarioA ==
    /\ w_pc = "returned"
    /\ w_data = Matrix("rowno", 12, 2)
    /\ w_L = 10
    /\ Len(w_out) = 3
    /\ \A i \in 1..3 : Len(w_out[i]) = 10 /\ Len(w_out[i][1]) = 2


\* ========================================================= sensor resolution
\* How each trainer settles the sensor columns from the caller's names and
\* the columns of the CSV header, on headers and name lists drawn from
\* bounded sets.
MaxCols == 3
MaxIdCols == 11     \* numeric metadata columns of a header
MaxReq == 2

\* every column name of the model, in the order Python's sorted() gives
AllNames ==
    <<"asset_id",
      "id_01", "id_02", "id_03", "id_04", "id_05", "id_06",
      "id_07", "id_08", "id_09", "id_10", "id_11", "id_12",
      "pressure", "rpm", "temp", "time_stamp">>

HeaderNames == {"asset_id", "pressure", "temp", "time_stamp"}
CallerNames == {"pressure", "rpm", "temp"}

\* numeric metadata columns, each holding 'id' in its name
IdColumns ==
    <<"id_01", "id_02", "id_03", "id_04", "id_05", "id_06",
      "id_07", "id_08", "id_09", "id_10", "id_11", "id_12">>

\* lower-cased names holding one of simple_trainer.py's exclude_patterns as
\* a substring ("asset_id": 'id', 'asset'; "time_stamp": 'time'; ...)
Excluded == {"asset_id", "time_stamp", "timestamp", "date"} \cup Range(IdColumns)

\* columns pandas reads with a numeric dtype (time_stamp holds date strings)
Numeric == {"asset_id", "pressure", "rpm", "temp"} \cup Range(IdColumns)

Rank(name) == CHOOSE k \in DOMAIN AllNames : AllNames[k] = name

sorted(names) == SortSeq(names, LAMBDA a, b : Rank(a) < Rank(b))

\* s[:n]
PyHead(s, n) == SubSeq(s, 1, Min(n, Len(s)))

\* [col for col in names if col in columns]
Present(names, columns) == SelectSeq(names, LAMBDA col : col \in Range(columns))

Headers ==
    {h \in UNION {[1..n -> HeaderNames] : n \in 0..MaxCols} :
        \A i, j \in DOMAIN h : i # j => h[i] # h[j]}

Requests == UNION {[1..n -> CallerNames] : n \in 0..MaxReq}

\* trainer.py load_and_preprocess_data
T_Resolve(sensor_columns, columns) ==
    LET available_columns == Present(sensor_columns, columns)
    IN  IF available_columns = << >>
        THEN [err |-> "EmptyColumnSet", out |-> << >>]
        ELSE [err |-> "none", out |-> available_columns]

\* str.lower() of the column names of the model
Lower(name) ==
    CASE name = "Timestamp" -> "timestamp"
      [] name = "DATE" -> "date"
      [] OTHER -> name

timestamp_synonyms == {"timestamp", "timestamps", "time_stamp", "date"}

A_Resolve_literal(sensor_columns, columns) ==
    LET available_sensors == Present(sensor_columns, columns)
        ts == {i \in DOMAIN columns : columns[i] = "time_stamp"}
    IN  IF ts = {}
        THEN [err |-> "NoTimestamp", out |-> << >>, ts |-> 0]
        ELSE IF available_sensors = << >>
        THEN [err |-> "EmptyFrame", out |-> << >>, ts |-> 0]
        ELSE [err |-> "none", out |-> sorted(available_sensors), ts |-> CHOOSE i \in ts : TRUE]

\* anomaly.py run_training_pipeline, stages 1 and 2 up to the empty check.
\* ts is the place, in the header, of the column that becomes the index
\* time_stamp: the column of that name or else the first column whose
\* lower-cased name is a synonym.
A_Resolve(sensor_columns, columns) ==
    LET available_sensors == Present(sensor_columns, columns)
        available_sensors_limited ==
            IF Len(available_sensors) > MAX_FEATURES
            THEN PyHead(available_sensors, MAX_FEATURES)
            ELSE available_sensors
        ts == IF "time_stamp" \in Range(columns)
              THEN {i \in DOMAIN columns : columns[i] = "time_stamp"}
              ELSE {i \in DOMAIN columns : Lower(columns[i]) \in timestamp_synonyms}
    IN  IF ts = {}
        THEN [err |-> "NoTimestamp", out |-> << >>, ts |-> 0]
        ELSE IF available_sensors_limited = << >>
        THEN [err |-> "EmptyFrame", out |-> << >>, ts |-> 0]
        ELSE [err |-> "none", out |-> sorted(available_sensors_limited),
              ts |-> CHOOSE i \in ts : \A j \in ts : i <= j]

U_Resolve_nocap(sensor_columns, columns) ==
    LET detected == IF sensor_columns = << >>
                    THEN SelectSeq(columns, LAMBDA col : Lower(col) \notin Excluded)
                    ELSE Present(sensor_columns, columns)
        numeric_columns == SelectSeq(columns, LAMBDA col : col \in Numeric)
        available_columns == IF detected = << >>
                             THEN numeric_columns
                             ELSE detected
    IN  IF available_columns = << >>
        THEN [err |-> "EmptyColumnSet", out |-> << >>]
        ELSE [err |-> "none", out |-> available_columns]

\* simple_trainer.py load_and_preprocess_data, column analysis
U_Resolve(sensor_columns, columns) ==
    LET detected == IF sensor_columns = << >>
                    THEN SelectSeq(columns, LAMBDA col : Lower(col) \notin Excluded)
                    ELSE Present(sensor_columns, columns)
        numeric_columns == SelectSeq(columns, LAMBDA col : col \in Numeric)
        available_columns == IF detected = << >>
                             THEN PyHead(numeric_columns, 10)
                             ELSE detected
    IN  IF available_columns = << >>
        THEN [err |-> "EmptyColumnSet", out |-> << >>]
        ELSE [err |-> "none", out |-> available_columns]

ColsReturn(res, who) ==
    /\ c_out' = res.out
    /\ c_err' = res.err
    /\ c_pc' = who
    /\ UNCHANGED <<c_cols, c_req, tvars, pvars, svars, wvars, fvars>>

\* trainer.py and anomaly.py always read the caller's list; simple_trainer.py
\* takes an empty list as "detect the columns yourself".
C_Trainer ==
    /\ c_pc = "input"
    /\ ColsReturn(T_Resolve(c_req, c_cols), "trainer")

C_Anomaly ==
    /\ c_pc = "input"
    /\ ColsReturn(A_Resolve(c_req, c_cols), "anomaly")

C_Ultra ==
    /\ c_pc = "input"
    /\ ColsReturn(U_Resolve(c_req, c_cols), "ultra")

InitCols ==
    /\ EmptyStore /\ JobIdle /\ PredictorIdle /\ WinIdle /\ FnIdle
    /\ c_cols \in Headers
    /\ c_req \in Requests
    /\ c_out = << >>
    /\ c_err = "none"
    /\ c_pc = "input"

NextCols == C_Trainer \/ C_Anomaly \/ C_Ultra

SpecCols == InitCols /\ [][NextCols]_vars

CallerPresent == Range(c_req) \cap Range(c_cols)

\* C10: when the caller gave sensor names and a trainer has resolved them
\* against the header, then if none of the names is a column the job failed
\* with EmptyColumnSet, and otherwise the job did not fail over the names
\* and the resolved set is exactly the caller's names that are columns.
C10_CallerNamesOnly ==
    (c_pc \in {"trainer", "anomaly", "ultra"} /\ c_req # << >> /\ c_err # "NoTimestamp") =>
        IF CallerPresent = {}
        THEN c_err = "EmptyColumnSet"
        ELSE c_err = "none" /\ Range(c_out) = CallerPresent


\* C11: the column list a trainer resolves, which is the list it persists
\* in columns.json, is in strictly increasing lexicographic order (sorted,
\* no name twice), whatever the order and repetitions of the caller's list
\* and the column order of the file.
C11_PersistedColumnsSortedUnique ==
    (c_pc \in {"trainer", "anomaly", "ultra"} /\ c_err = "none") =>
        \A i, j \in DOMAIN c_out : i < j => Rank(c_out[i]) < Rank(c_out[j])


\* ====================================================== functions of the code
\* SpecFn applies one function of the code to arguments drawn from bounded
\* sets: f_in holds the arguments and the name of the function they are for,
\* f_out the result.
MaxFrameRows == 2

FnCall(fn, res) ==
    /\ f_out' = res
    /\ f_pc' = fn
    /\ UNCHANGED <<f_in, tvars, pvars, svars, wvars, cvars>>

\* ------------------------------------------- simple_predictor.py: reindexing
\* A frame is [columns, nrows, data], data[name] being the column's values.
\* The cell of row r under column `name` holds 10 * r + Rank(name), never 0.
FrameOf(columns, n) ==
    [columns |-> columns, nrows |-> n,
     data |-> [name \in Range(columns) |-> [r \in 1..n |-> 10 * r + Rank(name)]]]

\* df[names]: KeyError when a name is not a column
PySelect(data, names) ==
    IF \E k \in DOMAIN names : names[k] \notin DOMAIN data
    THEN [raised |-> TRUE, columns |-> << >>, values |-> << >>]
    ELSE [raised |-> FALSE, columns |-> names,
          values |-> [k \in DOMAIN names |-> data[names[k]]]]

Reindex_nofill(df, trained_columns) == PySelect(df.data, trained_columns)

\* SimplePredictor.load_and_preprocess_data: missing trained columns are
\* added as 0.0, then the trained columns are selected in their order.
Reindex(df, trained_columns) ==
    LET missing_columns == SelectSeq(trained_columns, LAMBDA col : col \notin Range(df.columns))
        filled == [name \in Range(df.columns) \cup Range(missing_columns) |->
                      IF name \in Range(missing_columns)
                      THEN [r \in 1..df.nrows |-> 0]
                      ELSE df.data[name]]
    IN  PySelect(filled, trained_columns)

ReindexInputs ==
    {[fn |-> "reindex", df |-> FrameOf(h, n), trained |-> t] :
        h \in Headers, n \in 0..MaxFrameRows, t \in Requests \ {<< >>}}

F_Reindex ==
    /\ f_pc = "input" /\ f_in.fn = "reindex"
    /\ FnCall("reindex", Reindex(f_in.df, f_in.trained))

\* C12: reindexing never fails, returns exactly the trained columns in the
\* trained order, leaves the values of the columns the input has as they
\* were, makes every trained column the input lacks all 0, drops the other
\* input columns, and returns a frame already in the trained order as it is.
C12_ReindexToTrainedColumns ==
    f_pc = "reindex" =>
        LET df == f_in.df
            t == f_in.trained
        IN  /\ ~f_out.raised
            /\ f_out.columns = t
            /\ \A k \in DOMAIN t :
                  f_out.values[k] = IF t[k] \in Range(df.columns)
                                    THEN df.data[t[k]]
                                    ELSE [r \in 1..df.nrows |-> 0]
            /\ df.columns = t =>
                  f_out.values = [k \in DOMAIN df.columns |-> df.data[df.columns[k]]]

\* Scenario C: the input lacks the trained column "pressure", has "temp" and
\* an extra column; scoring goes on with "pressure" all 0.
C12_ScenarioC ==
    /\ f_pc = "reindex"
    /\ f_in.trained = <<"pressure", "temp">>
    /\ f_in.df.columns = <<"temp", "asset_id">>
    /\ f_in.df.nrows = 2
    /\ ~f_out.raised
    /\ f_out.values = << <<0, 0>>, f_in.df.data["temp"] >>

\* ------------------------------------------------- threshold calculation
\* Reconstruction errors are small naturals, NaN standing for a NaN error.
\* The numbers of a threshold descriptor are in thousandths, so that
\* np.percentile's linear interpolation and the 0.7 / 0.3 blend are exact.
\* The pretrained reference is << >> (pretrained_config has no threshold)
\* or <<t>>.
MaxErrors == 3

NaN == -1

\* np.percentile(errs, q), in thousandths; NaN if any error is NaN
Percentile(errs, q) ==
    IF NaN \in Range(errs) THEN NaN
    ELSE LET s == SortSeq(errs, LAMBDA a, b : a < b)
             pos == (Len(s) - 1) * q
             lo == pos \div 100 + 1
             hi == Min(lo + 1, Len(s))
         IN  10 * (100 * s[lo] + (pos % 100) * (s[hi] - s[lo]))

\* np.max(errs), in thousandths; NaN if any error is NaN
PyMax(errs) ==
    IF NaN \in Range(errs) THEN NaN
    ELSE 1000 * (CHOOSE m \in Range(errs) : \A e \in Range(errs) : e <= m)

\* trainer.py SimpleTrainer.calculate_threshold
T_calculate_threshold(mse_errors) ==
    [raised |-> FALSE, pretrained |-> << >>,
     threshold |-> Percentile(mse_errors, 95),
     max_error |-> PyMax(mse_errors),
     percentile_90 |-> Percentile(mse_errors, 90),
     percentile_95 |-> Percentile(mse_errors, 95),
     percentile_99 |-> Percentile(mse_errors, 99)]

\* anomaly.py run_training_pipeline, STAGE 4
A_calculate_threshold(losses) ==
    LET train_mse_loss == SelectSeq(losses, LAMBDA e : e # NaN)
    IN  IF train_mse_loss = << >>
        THEN [raised |-> TRUE]
        ELSE [raised |-> FALSE, pretrained |-> << >>,
              threshold |-> Percentile(train_mse_loss, 95),
              max_error |-> PyMax(train_mse_loss),
              percentile_90 |-> Percentile(train_mse_loss, 90),
              percentile_95 |-> Percentile(train_mse_loss, 95),
              percentile_99 |-> Percentile(train_mse_loss, 99)]

\* simple_trainer.py UltraSimpleTrainer.calculate_threshold.  A comparison
\* with NaN is False, and a reference of 0 is falsy.
U_calculate_threshold(mse_errors, pretrained) ==
    LET new == Percentile(mse_errors, 95)
        has == pretrained # << >> /\ pretrained[1] # 0
        pre == 1000 * pretrained[1]
        diff == IF new >= pre THEN new - pre ELSE pre - new
        threshold == IF has /\ new # NaN /\ 2 * diff < pre
                     THEN (7 * pre + 3 * new) \div 10
                     ELSE new
    IN  [raised |-> FALSE,
         pretrained |-> IF has THEN <<pre>> ELSE << >>,
         threshold |-> threshold,
         max_error |-> PyMax(mse_errors),
         percentile_90 |-> Percentile(mse_errors, 90),
         percentile_95 |-> threshold,
         percentile_99 |-> Percentile(mse_errors, 99)]

\* The errors of the training samples; for simple_trainer.py also the
\* reference threshold of pretrained_config.json and whether its
\* trained_columns count equals the sensor count of the data.
ThresholdInputs ==
    LET errs == UNION {[1..n -> {NaN, 1, 4}] : n \in 1..MaxErrors}
    IN  {[fn |-> "threshold", kind |-> k, errors |-> e, pretrained |-> << >>, compatible |-> FALSE] :
            k \in {"trainer", "anomaly", "ultra"}, e \in errs}
        \cup
        {[fn |-> "threshold", kind |-> "ultra", errors |-> e, pretrained |-> <<t>>, compatible |-> c] :
            e \in errs, t \in {0, 2, 3, 8}, c \in BOOLEAN}

F_TrainerThreshold ==
    /\ f_pc = "input" /\ f_in.fn = "threshold" /\ f_in.kind = "trainer"
    /\ FnCall("threshold", T_calculate_threshold(f_in.errors))

F_AnomalyThreshold ==
    /\ f_pc = "input" /\ f_in.fn = "threshold" /\ f_in.kind = "anomaly"
    /\ FnCall("threshold", A_calculate_threshold(f_in.errors))

F_UltraThreshold ==
    /\ f_pc = "input" /\ f_in.fn = "threshold" /\ f_in.kind = "ultra"
    /\ FnCall("threshold", U_calculate_threshold(f_in.errors, f_in.pretrained))

\* ------------------------------------------------------- missing values
\* A column is the sequence of its cells, NaN standing for a missing cell;
\* the frame handed to the cleaning is the sequence of its columns.
\* pandas ffill: a missing cell takes the last value above it
ffill(col) ==
    LET f[r \in 0..Len(col)] ==
            IF r = 0 THEN NaN ELSE IF col[r] # NaN THEN col[r] ELSE f[r - 1]
    IN  [r \in 1..Len(col) |-> f[r]]

\* pandas bfill: a missing cell takes the next value below it
bfill(col) ==
    LET f[r \in 1..(Len(col) + 1)] ==
            IF r = Len(col) + 1 THEN NaN ELSE IF col[r] # NaN THEN col[r] ELSE f[r + 1]
    IN  [r \in 1..Len(col) |-> f[r]]

\* simple_trainer.py load_and_preprocess_data: ffill().bfill(), empty check
U_Clean(df_sensors) ==
    IF df_sensors = << >> \/ df_sensors[1] = << >>
    THEN [raised |-> TRUE, out |-> << >>]
    ELSE [raised |-> FALSE,
          out |-> [c \in DOMAIN df_sensors |-> bfill(ffill(df_sensors[c]))]]

\* simple_predictor.py load_and_preprocess_data: ffill, bfill, fillna(0) when
\* a cell is missing
P_Clean(df_selected) ==
    LET missing_before == \E c \in DOMAIN df_selected : NaN \in Range(df_selected[c])
        filled == [c \in DOMAIN df_selected |->
                     LET col == bfill(ffill(df_selected[c]))
                     IN  [r \in DOMAIN col |-> IF col[r] = NaN THEN 0 ELSE col[r]]]
    IN  [raised |-> FALSE, out |-> IF missing_before THEN filled ELSE df_selected]

F_UltraClean ==
    /\ f_pc = "input" /\ f_in.fn = "clean" /\ f_in.kind = "ultra"
    /\ FnCall("clean", U_Clean(f_in.df_sensors))

F_PredictorClean ==
    /\ f_pc = "input" /\ f_in.fn = "clean" /\ f_in.kind = "simple"
    /\ FnCall("clean", P_Clean(f_in.df_sensors))

\* C16: the cleaned matrix has no missing cell: a gap holds the last value
\* above it in its column, or else the next value below it, or else 0 (a
\* column without any value is all 0); the trainer fails when the frame has
\* no row.
C16_NoMissingCellAfterCleaning ==
    f_pc = "clean" =>
        IF f_in.df_sensors[1] = << >>
        THEN f_in.kind = "ultra" => f_out.raised
        ELSE /\ ~f_out.raised
             /\ \A c \in DOMAIN f_in.df_sensors : \A r \in DOMAIN f_in.df_sensors[c] :
                  LET col == f_in.df_sensors[c]
                      above == {k \in 1..r : col[k] # NaN}
                      below == {k \in r..Len(col) : col[k] # NaN}
                      last == CHOOSE k \in above : \A j \in above : j <= k
                      next == CHOOSE k \in below : \A j \in below : k <= j
                  IN  f_out.out[c][r] = IF above # {} THEN col[last]
                                        ELSE IF below # {} THEN col[next]
                                        ELSE 0

\* ---------------------------------------------------------- delimiter
\* The first line of the file is a sequence of characters.
MaxLine == 4

\* str.count(ch)
PyCount(line, ch) == Cardinality({i \in DOMAIN line : line[i] = ch})

\* anomaly.py run_training_pipeline
A_Delimiter(first_line) == IF PyCount(first_line, ";") > 1 THEN ";" ELSE ","

\* simple_trainer.py load_and_preprocess_data
U_Delimiter(first_line) ==
    IF PyCount(first_line, ";") > PyCount(first_line, ",") THEN ";" ELSE ","

\* simple_predictor.py load_and_preprocess_data
P_Delimiter(first_line) ==
    IF PyCount(first_line, ",") > PyCount(first_line, ";") THEN "," ELSE ";"

F_Delimiter ==
    /\ f_pc = "input" /\ f_in.fn = "delimiter"
    /\ FnCall("delimiter",
              CASE f_in.kind = "anomaly" -> A_Delimiter(f_in.line)
                [] f_in.kind = "ultra" -> U_Delimiter(f_in.line)
                [] f_in.kind = "simple" -> P_Delimiter(f_in.line))

\* C17: every loader picks the comma when the first line has more commas
\* than semicolons and the semicolon when it has more semicolons than commas.
C17_DelimiterMajorityWins ==
    f_pc = "delimiter" =>
        LET commas == PyCount(f_in.line, ",")
            semicolons == PyCount(f_in.line, ";")
        IN  /\ commas > semicolons => f_out = ","
            /\ semicolons > commas => f_out = ";"

\* C28: for one and the same first line, the loader that ran chose the
\* delimiter that each of the three loaders (the two training loaders and
\* the inference loader) chooses for it, ties of the two counts included.
C28_LoadersAgreeOnDelimiter ==
    f_pc = "delimiter" =>
        /\ f_out = U_Delimiter(f_in.line)
        /\ f_out = A_Delimiter(f_in.line)
        /\ f_out = P_Delimiter(f_in.line)

\* -------------------------------------------------------------- scoring
predict_ge(row_errors, threshold) ==
    LET mse_errors == row_errors
        total[k \in 0..Len(mse_errors)] ==
            IF k = 0 THEN 0 ELSE total[k - 1] + mse_errors[k]
    IN  [mse_errors |-> mse_errors,
         anomaly_count |-> Cardinality({t \in DOMAIN mse_errors : mse_errors[t] >= threshold}),
         is_anomaly |-> total[Len(mse_errors)] > threshold * Len(mse_errors),
         processed_samples |-> Len(mse_errors)]

\* simple_predictor.py SimplePredictor.predict, from the squared
\* reconstruction error of each row (one feature): one error per row, the
\* rows above the threshold counted, the mean error compared with the
\* threshold (sum > threshold * rows).
predict(row_errors, threshold) ==
    LET mse_errors == row_errors
        total[k \in 0..Len(mse_errors)] ==
            IF k = 0 THEN 0 ELSE total[k - 1] + mse_errors[k]
    IN  [mse_errors |-> mse_errors,
         anomaly_count |-> Cardinality({t \in DOMAIN mse_errors : mse_errors[t] > threshold}),
         is_anomaly |-> total[Len(mse_errors)] > threshold * Len(mse_errors),
         processed_samples |-> Len(mse_errors)]

F_Predict ==
    /\ f_pc = "input" /\ f_in.fn = "predict"
    /\ FnCall("predict", predict(f_in.errors, f_in.threshold))

\* C29: in the result of predict on a frame of at least one row, the count
\* of anomalous rows lies between 0 and the rows processed and is the
\* number of rows whose error is strictly above the threshold; a count of 0
\* goes with is_anomaly false, a count of all rows with is_anomaly true.
C29_AnomalyCountConsistent ==
    (f_pc = "predict" /\ Len(f_in.errors) >= 1) =>
        /\ f_out.processed_samples = Len(f_in.errors)
        /\ 0 <= f_out.anomaly_count /\ f_out.anomaly_count <= f_out.processed_samples
        /\ f_out.anomaly_count =
              Cardinality({t \in DOMAIN f_in.errors : f_in.errors[t] > f_in.threshold})
        /\ f_out.anomaly_count = 0 => ~f_out.is_anomaly
        /\ f_out.anomaly_count = f_out.processed_samples => f_out.is_anomaly

\* A frame with a row whose error equals the threshold and none above it.
C29_RowAtThreshold ==
    /\ f_pc = "predict"
    /\ \E t \in DOMAIN f_in.errors : f_in.errors[t] = f_in.threshold
    /\ f_out.anomaly_count = 0
    /\ ~f_out.is_anomaly

\* Sum of e[a..b]
SumOf(e, a, b) ==
    LET acc[k \in (a - 1)..b] == IF k = a - 1 THEN 0 ELSE acc[k - 1] + e[k]
    IN  acc[b]

\* C18: for a frame of N rows scored with window length L, the score of
\* timestamp t is the sum of the errors of the windows covering t divided
\* by their number, and 0 when no window covers t.  The error of a window
\* is the mean of the squared errors of its L rows; the equation is
\* multiplied through by L and by the number of covering windows.
C18_OverlapSmoothedScores ==
    f_pc = "predict" =>
        LET N == Len(f_in.errors)
            L == f_in.L
        IN  \A t \in 1..N :
              LET covering == {i \in 1..(N - L + 1) : i <= t /\ t <= i + L - 1}
                  sums == [i \in covering |-> SumOf(f_in.errors, i, i + L - 1)]
                  all == CHOOSE q \in [1..Cardinality(covering) -> covering] :
                            \A a, b \in DOMAIN q : a # b => q[a] # q[b]
                  windows == [k \in DOMAIN all |-> sums[all[k]]]
              IN  IF covering = {}
                  THEN f_out.mse_errors[t] = 0
                  ELSE f_out.mse_errors[t] * L * Cardinality(covering)
                          = SumOf(windows, 1, Len(windows))

\* ------------------------------------------------ single-reading scoring
run_prediction_ge(sensor_values, n_expected, reconstruction_error, threshold) ==
    IF Len(sensor_values) # n_expected
    THEN [success |-> FALSE]
    ELSE LET diff == IF reconstruction_error >= threshold
                     THEN reconstruction_error - threshold
                     ELSE threshold - reconstruction_error
             is_anomaly == reconstruction_error >= threshold
         IN  [success |-> TRUE,
              input_data |-> [k \in 1..SEQUENCE_LEN |-> sensor_values],
              is_anomaly |-> is_anomaly,
              confidence |-> <<Min(threshold, diff), threshold>>,
              risk_level |-> IF is_anomaly THEN "high" ELSE "normal"]

\* anomaly.py run_prediction after the loads, for a positive threshold: the
\* value count is checked, the reading is repeated SEQUENCE_LEN times, the
\* model's reconstruction error is compared with the threshold.  The
\* confidence min(1.0, diff / threshold) is the fraction <<numerator,
\* denominator>> with the threshold as denominator.
run_prediction(sensor_values, n_expected, reconstruction_error, threshold) ==
    IF Len(sensor_values) # n_expected
    THEN [success |-> FALSE]
    ELSE LET diff == IF reconstruction_error >= threshold
                     THEN reconstruction_error - threshold
                     ELSE threshold - reconstruction_error
             is_anomaly == reconstruction_error > threshold
         IN  [success |-> TRUE,
              input_data |-> [k \in 1..SEQUENCE_LEN |-> sensor_values],
              is_anomaly |-> is_anomaly,
              confidence |-> <<Min(threshold, diff), threshold>>,
              risk_level |-> IF is_anomaly THEN "high" ELSE "normal"]

F_RunPrediction ==
    /\ f_pc = "input" /\ f_in.fn = "run_prediction"
    /\ FnCall("run_prediction",
              run_prediction(f_in.reading, f_in.n_expected, f_in.error, f_in.threshold))

\* C19: a reading whose value count is not the stored column count gives a
\* failure; otherwise the pseudo-window is SEQUENCE_LEN copies of the
\* reading, is_anomaly holds exactly when the error is strictly above the
\* threshold, risk_level is "high" exactly when is_anomaly, and the
\* confidence is min(1, |error - threshold| / threshold), within [0, 1].
C19_SingleReadingScoring ==
    f_pc = "run_prediction" =>
        IF Len(f_in.reading) # f_in.n_expected
        THEN ~f_out.success
        ELSE LET e == f_in.error
                 t == f_in.threshold
                 num == f_out.confidence[1]
                 den == f_out.confidence[2]
             IN  /\ f_out.success
                 /\ Len(f_out.input_data) = SEQUENCE_LEN
                 /\ \A k \in DOMAIN f_out.input_data : f_out.input_data[k] = f_in.reading
                 /\ f_out.is_anomaly <=> (e > t)
                 /\ (f_out.risk_level = "high") <=> f_out.is_anomaly
                 /\ den > 0 /\ 0 <= num /\ num <= den
                 /\ IF e >= 2 * t THEN num = den
                    ELSE IF e >= t THEN num * t = (e - t) * den
                    ELSE num * t = (t - e) * den

\* A reading of the right length whose error equals the threshold: not an
\* anomaly, confidence 0.
C19_ErrorAtThreshold ==
    /\ f_pc = "run_prediction"
    /\ f_out.success
    /\ f_in.error = f_in.threshold
    /\ ~f_out.is_anomaly
    /\ f_out.confidence[1] = 0

\* --------------------------------------------------- timestamp synonyms
\* df.rename(columns={ts_col: 'time_stamp'}) on the header: the first
\* column named by a synonym is renamed to time_stamp.
RenameTs(columns) ==
    LET ts == {i \in DOMAIN columns : Lower(columns[i]) \in timestamp_synonyms}
        first == CHOOSE i \in ts : \A j \in ts : i <= j
    IN  IF ts = {} THEN columns
        ELSE [i \in DOMAIN columns |-> IF i = first THEN "time_stamp" ELSE columns[i]]

\* The schema resolution of anomaly.py on a header and on the same header
\* with its timestamp column renamed.
F_Schema ==
    /\ f_pc = "input" /\ f_in.fn = "schema"
    /\ FnCall("schema", [given |-> A_Resolve(f_in.req, f_in.cols),
                         renamed |-> A_Resolve(f_in.req, RenameTs(f_in.cols))])

\* C20: for a header with a column named by a synonym of time_stamp and no
\* column time_stamp, and a caller list of sensor names, the resolution finds
\* the timestamp column and gives the same result (sensor columns, index
\* column, failure) as for the header with that column renamed to time_stamp.
C20_SynonymAsTimeStamp ==
    ( /\ f_pc = "schema"
      /\ \E i \in DOMAIN f_in.cols : Lower(f_in.cols[i]) \in timestamp_synonyms
      /\ "time_stamp" \notin Range(f_in.cols) )
    => /\ f_out.given.err # "NoTimestamp"
       /\ f_out.given = f_out.renamed

\* Scenario B: the header is Timestamp, temp and the caller asks for temp.
C20_ScenarioB ==
    /\ f_pc = "schema"
    /\ f_in.cols = <<"Timestamp", "temp">>
    /\ f_in.req = <<"temp">>
    /\ f_out.given = [err |-> "none", out |-> <<"temp">>, ts |-> 1]
    /\ f_out.renamed = f_out.given

\* C13: in every descriptor a trainer computes from errors that are all
\* numbers, percentile_90 <= percentile_95 <= percentile_99, and each is
\* that percentile of the errors, whatever the pretrained reference.
C13_PercentilesOrdered ==
    (f_pc = "threshold" /\ NaN \notin Range(f_in.errors)) =>
        /\ f_out.percentile_90 <= f_out.percentile_95
        /\ f_out.percentile_95 <= f_out.percentile_99
        /\ f_out.percentile_90 = Percentile(f_in.errors, 90)
        /\ f_out.percentile_95 = Percentile(f_in.errors, 95)
        /\ f_out.percentile_99 = Percentile(f_in.errors, 99)

\* C14: the threshold of simple_trainer.py is 0.7 * prior + 0.3 * new when a
\* structurally compatible prior exists and the new 95th percentile is
\* within 50% of it, and the new value otherwise (no prior, incompatible
\* prior, larger difference); a difference of exactly 50% may go either
\* way.  When a prior exists, the descriptor records the prior and the new
\* value.  A reference threshold of 0 counts as no prior.
C14_BlendOnlyCompatibleNear ==
    (f_pc = "threshold" /\ f_in.kind = "ultra" /\ NaN \notin Range(f_in.errors)) =>
        LET new == Percentile(f_in.errors, 95)
            exists == f_in.pretrained # << >> /\ f_in.pretrained[1] # 0
            pre == 1000 * f_in.pretrained[1]
            diff == IF new >= pre THEN new - pre ELSE pre - new
            blend == (7 * pre + 3 * new) \div 10
        IN  /\ (exists /\ f_in.compatible /\ 2 * diff < pre) => f_out.threshold = blend
            /\ (~exists \/ ~f_in.compatible \/ 2 * diff > pre) => f_out.threshold = new
            /\ exists => (f_out.pretrained = <<pre>> /\ f_out.percentile_95 = new)

\* C15: a threshold calculation fails when every error is NaN, and
\* otherwise returns a descriptor whose numbers are all finite, computed
\* from the errors that are numbers.
C15_CalibrationFiltersNaN ==
    f_pc = "threshold" =>
        IF \A i \in DOMAIN f_in.errors : f_in.errors[i] = NaN
        THEN f_out.raised
        ELSE /\ ~f_out.raised
             /\ NaN \notin {f_out.threshold, f_out.max_error, f_out.percentile_90,
                            f_out.percentile_95, f_out.percentile_99}

\* ----------------------------------------------------------------- scaling
\* A scaler is [feature_names_in_ |-> the columns it was fitted on, data |->
\* the frame its statistics come from].  Every scaler.pkl of the repository
\* is fitted on a DataFrame, so it carries the column names.
\*
\* StandardScaler.transform checks the frame's column names against
\* feature_names_in_ (same names, same order), then its column count
\* against n_features_in_.
U_Scale_count(config, exists, loadOk, prior, columns) ==
    LET pretrained_scaler == IF config /\ exists /\ loadOk THEN <<prior>> ELSE << >>
        fresh == [feature_names_in_ |-> columns, data |-> "current"]
    IN  IF pretrained_scaler = << >>
        THEN [err |-> "none", scaler |-> fresh, pretrained_scaler |-> << >>]
        ELSE IF Len(prior.feature_names_in_) # Len(columns)
        THEN [err |-> "none", scaler |-> fresh, pretrained_scaler |-> <<prior>>]
        ELSE [err |-> "none", scaler |-> prior, pretrained_scaler |-> <<prior>>]

\* simple_trainer.py load_and_preprocess_data, "Scale the data", with
\* _load_pretrained_scaler: the scaler the job goes on with (and saves), the
\* error it raises, and the pretrained scaler object after the step.
U_Scale(config, exists, loadOk, prior, columns) ==
    LET pretrained_scaler == IF config /\ exists /\ loadOk THEN <<prior>> ELSE << >>
        fresh == [feature_names_in_ |-> columns, data |-> "current"]
    IN  IF pretrained_scaler = << >>
        THEN [err |-> "none", scaler |-> fresh, pretrained_scaler |-> << >>]
        ELSE IF prior.feature_names_in_ # columns
        THEN \* ValueError "The feature names should match ...": new scaler
             [err |-> "none", scaler |-> fresh, pretrained_scaler |-> <<prior>>]
        ELSE IF Len(prior.feature_names_in_) # Len(columns)
        THEN \* any other ValueError is raised again
             [err |-> "ScaleError", scaler |-> prior, pretrained_scaler |-> <<prior>>]
        ELSE [err |-> "none", scaler |-> prior, pretrained_scaler |-> <<prior>>]

F_Scale ==
    /\ f_pc = "input" /\ f_in.fn = "scale"
    /\ FnCall("scale", U_Scale(f_in.config, f_in.exists, f_in.loadOk,
                               f_in.prior, f_in.columns))

\* C22: the scaler the job goes on with is the pretrained one only if the
\* pretrained scaler's column names, and so their count, are those of the
\* current frame; in every other case it is a scaler newly fitted on the
\* current frame, the step raises nothing over the mismatch, and the
\* pretrained scaler is left as it was loaded.
C22_ScalerReuseOnlyOnMatch ==
    f_pc = "scale" =>
        LET same == /\ f_in.prior.feature_names_in_ = f_in.columns
                    /\ Len(f_in.prior.feature_names_in_) = Len(f_in.columns)
        IN  /\ f_out.err = "none"
            /\ f_out.scaler.data = "prior" => same
            /\ ~same => f_out.scaler = [feature_names_in_ |-> f_in.columns,
                                        data |-> "current"]
            /\ f_out.pretrained_scaler # << >> => f_out.pretrained_scaler[1] = f_in.prior

\* A pretrained scaler of as many columns as the frame, under other names.
C22_SameCountOtherNames ==
    /\ f_pc = "scale"
    /\ f_out.pretrained_scaler # << >>
    /\ Len(f_in.prior.feature_names_in_) = Len(f_in.columns)
    /\ f_in.prior.feature_names_in_ # f_in.columns
    /\ f_out.scaler.data = "current"

\* -------------------------------------------------------------- warm start
\* simple_trainer.py train_model up to the choice of the epoch count, with
\* build_simple_model and _load_pretrained_model.  config: the pretrained
\* configuration is there; n_trained: the length of its trained_columns;
\* input_shape: the columns of the training matrix; exists, loadOk,
\* model_shape: the pretrained model file, its loading and its input width.
\* No code sets the attribute _is_pretrained, so hasattr(...) is False.
train_model(config, n_trained, input_shape, exists, loadOk, model_shape) ==
    LET pretrained_model ==
            IF ~config THEN "None"
            ELSE IF n_trained # input_shape THEN "None"
            ELSE IF exists
                 THEN IF ~loadOk THEN "None"
                      ELSE IF model_shape = input_shape THEN "pretrained"
                      ELSE "None"
                 ELSE "None"
        is_pretrained == FALSE \/ (config /\ n_trained = input_shape)
    IN  [model |-> IF pretrained_model # "None" THEN "pretrained" ELSE "scratch",
         epochs |-> IF is_pretrained THEN 1 ELSE 2]

F_TrainModel ==
    /\ f_pc = "input" /\ f_in.fn = "train_model"
    /\ FnCall("train_model",
              train_model(f_in.config, f_in.n_trained, f_in.input_shape,
                          f_in.exists, f_in.loadOk, f_in.model_shape))

\* C23: the model is trained for 1 epoch exactly when it was seeded from
\* the loaded pretrained model, and for 2 epochs when it was built from
\* scratch.
C23_WarmStartEpochsIffSeeded ==
    f_pc = "train_model" =>
        /\ f_out.model = "pretrained" => f_out.epochs = 1
        /\ f_out.model = "scratch" => f_out.epochs = 2

\* -------------------------------------------------------------- row capping
\* The rows of a cleaned frame are named by their place in the file, which
\* is their time order: the frame of n rows is <<1, ..., n>>.  The row caps
\* MAX_SAMPLES and max_training_rows are arguments here, so that frames
\* above the cap can be enumerated.
MaxCapRows == 5     \* rows of the frames that are capped
MaxRowCap == 3      \* the row caps tried

\* trainer.py load_and_preprocess_data: df_sensors.sample(n=MAX_SAMPLES,
\* random_state=42) draws n rows without replacement and returns them in
\* the order drawn.  The generator is not modelled: every arrangement of n
\* distinct rows is a possible outcome.
T_Sample(df_sensors, n_cap) ==
    IF Len(df_sensors) > n_cap
    THEN {[k \in 1..n_cap |-> df_sensors[q[k]]] :
            q \in {q \in [1..n_cap -> DOMAIN df_sensors] :
                      \A a, b \in 1..n_cap : a # b => q[a] # q[b]}}
    ELSE {df_sensors}

\* anomaly.py run_training_pipeline, the smart sampling: the last 70% of
\* the cap, a strided sample of the rows before them, sorted by index.
A_Sample(df_features, cap) ==
    LET n == Len(df_features)
        recent_count == (cap * 7) \div 10
        historical_count == cap - recent_count
        recent_data == SubSeq(df_features, n - recent_count + 1, n)
        historical_data == SubSeq(df_features, 1, n - recent_count)
        step == Len(historical_data) \div historical_count
        strided == [k \in 1..((Len(historical_data) + step - 1) \div step) |->
                        historical_data[1 + (k - 1) * step]]
        historical_sampled == IF Len(historical_data) > historical_count
                              THEN PyHead(strided, historical_count)
                              ELSE historical_data
    IN  IF n > cap
        THEN IF n > recent_count
             THEN SortSeq(historical_sampled \o recent_data, LAMBDA a, b : a < b)
             ELSE recent_data
        ELSE df_features

F_TrainerSample ==
    /\ f_pc = "input" /\ f_in.fn = "cap"
    /\ \E sampled \in T_Sample(f_in.index, f_in.cap) : FnCall("trainer_cap", sampled)

F_AnomalySample ==
    /\ f_pc = "input" /\ f_in.fn = "cap"
    /\ FnCall("anomaly_cap", A_Sample(f_in.index, f_in.cap))

\* C24: the rows handed to the window builder are rows of the source frame
\* in their original time order, for frames below and above the row cap: a
\* subsequence, never a permutation.
C24_CappedRowsKeepTimeOrder ==
    f_pc \in {"trainer_cap", "anomaly_cap"} =>
        /\ \A k \in DOMAIN f_out : f_out[k] \in Range(f_in.index)
        /\ \A a, b \in DOMAIN f_out : a < b => f_out[a] < f_out[b]

\* ---------------------------------------------------------- auto-detection
\* simple_trainer.py main() calls train(csv_path, []): the sensor columns
\* are detected from the header.
F_AutoDetect ==
    /\ f_pc = "input" /\ f_in.fn = "autodetect"
    /\ FnCall("autodetect", U_Resolve(<< >>, f_in.cols))

U_LoadColumns(sensor_columns, columns) ==
    LET res == U_Resolve(sensor_columns, columns)
        available_columns == res.out
        df_sensors == SelectSeq(columns, LAMBDA col : col \in Range(available_columns))
    IN  [err |-> res.err, persisted |-> available_columns, fitted |-> df_sensors]

F_ColumnOrder ==
    /\ f_pc = "input" /\ f_in.fn = "columns"
    /\ FnCall("columns", U_LoadColumns(f_in.req, f_in.cols))

\* C27: the column list a training job persists names the columns in the
\* positional order of the matrix its scaler and model were fitted on,
\* whatever the order of the caller's names (none given twice) and of the
\* file's columns.
C27_PersistedOrderIsFittedOrder ==
    ( /\ f_pc = "columns" /\ f_out.err = "none"
      /\ \A i, j \in DOMAIN f_in.req : i # j => f_in.req[i] # f_in.req[j] )
    => f_out.persisted = f_out.fitted

\* ------------------------------------------------- order of the caller list
\* anomaly.py run_training_pipeline resolves the columns for a caller list
\* and for a permutation of it, on the same header.
F_Permute ==
    /\ f_pc = "input" /\ f_in.fn = "permute"
    /\ FnCall("permute", [first |-> A_Resolve(f_in.first, f_in.cols),
                          second |-> A_Resolve(f_in.second, f_in.cols)])

\* C30: two permutations of one caller list, of any length (more than
\* MAX_FEATURES names included), resolve to the same persisted column list.
C30_CallerOrderIrrelevant ==
    f_pc = "permute" => f_out.first = f_out.second

\* ------------------------------------------------------------------ SpecFn
FnInputs ==
    ReindexInputs \cup ThresholdInputs
    \* frames with gaps, for the cleaning of the trainer and of the predictor
    \cup {[fn |-> "clean", kind |-> k, df_sensors |-> d] :
            k \in {"ultra", "simple"},
            d \in UNION {[1..c -> [1..n -> {NaN, 5, 7}]] : c \in 1..2, n \in 0..MaxFrameRows}}
    \* first lines, for the delimiter detection of the three loaders
    \cup {[fn |-> "delimiter", kind |-> k, line |-> l] :
            k \in {"anomaly", "ultra", "simple"},
            l \in UNION {[1..n -> {",", ";", "x"}] : n \in 0..MaxLine}}
    \* row errors of a scored frame, the stored threshold, and the window
    \* length the stored model was trained with
    \cup {[fn |-> "predict", errors |-> e, threshold |-> t, L |-> l] :
            e \in UNION {[1..n -> {0, 1, 3}] : n \in 1..MaxErrors},
            t \in {1, 2}, l \in 1..2}
    \* single readings, the stored column count, the reconstruction error of
    \* the model and the stored (positive) threshold
    \cup {[fn |-> "run_prediction", reading |-> v, n_expected |-> n, error |-> e, threshold |-> t] :
            v \in UNION {[1..k -> {1, 2}] : k \in 0..2},
            n \in 1..2, e \in {0, 1, 2, 3, 5}, t \in {1, 2}}
    \* headers whose timestamp column, if any, goes by a synonym, and the
    \* caller's sensor names
    \cup {[fn |-> "schema", cols |-> h, req |-> q] :
            h \in {h \in UNION {[1..n -> {"Timestamp", "DATE", "temp", "pressure"}] : n \in 0..MaxCols} :
                      \A i, j \in DOMAIN h : i # j => h[i] # h[j]},
            q \in Requests}
    \* pretrained scalers, whether the configuration and the scaler file are
    \* there and load, and the sensor columns of the current frame
    \cup {[fn |-> "scale", config |-> c, exists |-> x, loadOk |-> l,
           prior |-> [feature_names_in_ |-> p, data |-> "prior"], columns |-> a] :
            c \in BOOLEAN, x \in BOOLEAN, l \in BOOLEAN,
            p \in {h \in UNION {[1..n -> CallerNames] : n \in 1..MaxReq} :
                      \A i, j \in DOMAIN h : i # j => h[i] # h[j]},
            a \in {h \in UNION {[1..n -> CallerNames] : n \in 1..MaxReq} :
                      \A i, j \in DOMAIN h : i # j => h[i] # h[j]}}
    \* the pretrained configuration and model found by a training job
    \cup {[fn |-> "train_model", config |-> c, n_trained |-> n, input_shape |-> i,
           exists |-> x, loadOk |-> l, model_shape |-> m] :
            c \in BOOLEAN, n \in 0..MaxReq, i \in 1..MaxReq,
            x \in BOOLEAN, l \in BOOLEAN, m \in 1..MaxReq}
    \* time-ordered frames and row caps below and above their length
    \cup {[fn |-> "cap", index |-> [k \in 1..n |-> k], cap |-> c] :
            n \in 1..MaxCapRows, c \in 1..MaxRowCap}
    \* headers for the detection of sensor columns: a date column or none,
    \* numeric metadata columns, sensor columns or none
    \cup {[fn |-> "autodetect", cols |-> pre \o SubSeq(IdColumns, 1, n) \o post] :
            pre \in {<< >>, <<"Timestamp">>, <<"time_stamp">>},
            n \in 0..MaxIdCols,
            post \in {<< >>, <<"DATE">>, <<"temp">>, <<"temp", "pressure">>}}
    \* headers and caller lists, for the order of the persisted columns
    \cup {[fn |-> "columns", cols |-> h, req |-> q] : h \in Headers, q \in Requests}
    \* caller lists of up to MaxIdCols names, each with its reversal and its
    \* rotation by one, on a header that holds all the names
    \cup UNION {
            {[fn |-> "permute", cols |-> <<"time_stamp">> \o IdColumns,
              first |-> SubSeq(IdColumns, 1, n), second |-> p] :
                p \in {[k \in 1..n |-> IdColumns[n + 1 - k]],
                       [k \in 1..n |-> IdColumns[(k % Max(n, 1)) + 1]]}} :
            n \in 0..MaxIdCols}

InitFn ==
    /\ EmptyStore /\ JobIdle /\ PredictorIdle /\ WinIdle /\ ColsIdle
    /\ f_in \in FnInputs
    /\ f_out = << >>
    /\ f_pc = "input"

NextFn ==
    \/ F_Reindex
    \/ F_TrainerThreshold \/ F_AnomalyThreshold \/ F_UltraThreshold
    \/ F_UltraClean \/ F_PredictorClean
    \/ F_Delimiter
    \/ F_Predict
    \/ F_RunPrediction
    \/ F_Schema
    \/ F_Scale
    \/ F_TrainModel
    \/ F_TrainerSample \/ F_AnomalySample
    \/ F_AutoDetect
    \/ F_ColumnOrder
    \/ F_Permute

SpecFn == InitFn /\ [][NextFn]_vars

====
